---- MODULE Spec2Model ----
(***************************************************************************)
(* NF-e XML converter: model of nfe_parser.py (archive unwrapper, document *)
(* extractor, batch aggregator).                                           *)
(*                                                                         *)
(* Text is a sequence of one-character strings, so that str.strip,        *)
(* str.lower, str.endswith, str.replace and float() are computed and not   *)
(* assumed.  A Python value is a record [t, s, v]: None, a str, a float    *)
(* (v counts hundredths) or NaN.  An XML element is a record               *)
(* [tag, attrs, text, children]; text <<>> stands for a missing or empty   *)
(* text node (both are falsy in `found.text`).                             *)
(***************************************************************************)
EXTENDS Integers, Sequences, FiniteSets, TLC

VARIABLES
    uploaded_files,   \* argument of process_nfe_files: sequence of blobs
    selected_fields,  \* argument: insertion-ordered dict, as <<key, bool>> pairs
    pc,               \* position inside process_nfe_files / parse_nfe_xml
    fi,               \* index of the blob the unwrapper loop is at
    xml_contents,     \* buffers collected by extract_xml_from_files
    xi,               \* index of the buffer the aggregation loop is at
    header_data,      \* parse_nfe_xml: the Document Record
    items,            \* parse_nfe_xml: the det nodes found
    ii,               \* parse_nfe_xml: index of the det node the item loop is at
    results,          \* parse_nfe_xml: the records built so far
    records,          \* what the last parse_nfe_xml call returned
    all_records,      \* concatenation of the returned records
    df,               \* the table process_nfe_files returns
    position,         \* the read position of each blob: 0 start, 1 end
    raising,          \* the fields whose try block raises in this run
    call,             \* which call of process_nfe_files on these blobs this is
    first_df,         \* the table the first call returned
    source_docs,      \* dashboard: the documents the table shown was made from
    df_dashboard,     \* dashboard: the table calculate_kpis is given
    kpis,             \* dashboard: what calculate_kpis returned
    df_processado,    \* app: st.session_state.df_processado
    run_log           \* app: the outcome of each 'Processar Arquivos' run so far

vars == <<uploaded_files, selected_fields, pc, fi, xml_contents, xi,
          header_data, items, ii, results, records, all_records, df,
          position, raising, call, first_df, source_docs, df_dashboard, kpis,
          df_processado, run_log>>

\* what a step inside process_nfe_files leaves alone
outside == <<raising, call, first_df, source_docs, df_dashboard, kpis,
             df_processado, run_log>>

----------------------------------------------------------------------------
(* Bounds of the model *)

MaxFiles == 2

MaxItems == 2

\* documents behind the table the dashboard shows
MaxDocs == 3

\* runs of 'Processar Arquivos' in one session
MaxRuns == 3

----------------------------------------------------------------------------
(* Python values *)

PyNone == [t |-> "None", s |-> <<>>, v |-> 0]

PyStr(s) == [t |-> "str", s |-> s, v |-> 0]

PyFloat(v) == [t |-> "float", s |-> <<>>, v |-> v]

PyNaN == [t |-> "nan", s |-> <<>>, v |-> 0]

\* truthiness of an Optional[str]: None and "" are falsy
Truthy(val) == val.t = "str" /\ val.s # <<>>

----------------------------------------------------------------------------
(* Text *)

Digits == <<"0", "1", "2", "3", "4", "5", "6", "7", "8", "9">>

IsDigit(c) == \E d \in 1..10 : Digits[d] = c

DigitVal(c) == (CHOOSE d \in 1..10 : Digits[d] = c) - 1

IsSpace(c) == c \in {" ", "\t", "\n"}

RECURSIVE LStrip(_)
LStrip(s) == IF s # <<>> /\ IsSpace(Head(s)) THEN LStrip(Tail(s)) ELSE s

RECURSIVE RStrip(_)
RStrip(s) ==
    IF s # <<>> /\ IsSpace(s[Len(s)]) THEN RStrip(SubSeq(s, 1, Len(s) - 1)) ELSE s

\* str.strip()
Strip(s) == RStrip(LStrip(s))

UpperCase == <<"A", "B", "C", "I", "L", "M", "P", "X", "Z">>

LowerCase == <<"a", "b", "c", "i", "l", "m", "p", "x", "z">>

LowerChar(c) ==
    IF \E k \in 1..Len(UpperCase) : UpperCase[k] = c
    THEN LowerCase[CHOOSE k \in 1..Len(UpperCase) : UpperCase[k] = c]
    ELSE c

\* str.lower()
Lower(s) == [k \in 1..Len(s) |-> LowerChar(s[k])]

\* str.endswith(suffix)
EndsWith(s, suffix) ==
    /\ Len(s) >= Len(suffix)
    /\ SubSeq(s, Len(s) - Len(suffix) + 1, Len(s)) = suffix

StartsWith(s, prefix) ==
    Len(s) >= Len(prefix) /\ SubSeq(s, 1, Len(prefix)) = prefix

\* str.replace(old, ""): every non-overlapping occurrence, left to right
RECURSIVE Remove(_, _)
Remove(s, old) ==
    IF s = <<>> THEN <<>>
    ELSE IF StartsWith(s, old) THEN Remove(SubSeq(s, Len(old) + 1, Len(s)), old)
    ELSE <<Head(s)>> \o Remove(Tail(s), old)

RECURSIVE DigitsVal(_)
DigitsVal(s) ==
    IF s = <<>> THEN 0
    ELSE DigitsVal(SubSeq(s, 1, Len(s) - 1)) * 10 + DigitVal(s[Len(s)])

DotAt(s) == IF \E k \in 1..Len(s) : s[k] = "."
            THEN CHOOSE k \in 1..Len(s) : s[k] = "." /\ \A j \in 1..(k - 1) : s[j] # "."
            ELSE Len(s) + 1

\* float(text): decimal literals [-]digits[.digits] after stripping; anything
\* else is a ValueError.  The value counts hundredths (further digits are cut).
FloatBody(s) ==
    LET body == IF s # <<>> /\ Head(s) = "-" THEN Tail(s) ELSE s
        sign == IF s # <<>> /\ Head(s) = "-" THEN -1 ELSE 1
        dot  == DotAt(body)
        ip   == SubSeq(body, 1, dot - 1)
        fp   == SubSeq(body, dot + 1, Len(body))
        fp2  == SubSeq(fp \o <<"0", "0">>, 1, 2)
    IN  IF /\ \A k \in 1..Len(ip) : IsDigit(ip[k])
           /\ \A k \in 1..Len(fp) : IsDigit(fp[k])
           /\ Len(ip) + Len(fp) > 0
        THEN [ok |-> TRUE, v |-> sign * (DigitsVal(ip) * 100 + DigitsVal(fp2))]
        ELSE [ok |-> FALSE, v |-> 0]

ParseFloat(s) == FloatBody(Strip(s))

----------------------------------------------------------------------------
(* XML trees and the ElementPath subset the locators use *)

Elem(tag, attrs, text, children) ==
    [tag |-> tag, attrs |-> attrs, text |-> text, children |-> children]

Leaf(tag, text) == Elem(tag, <<>>, text, <<>>)

Node(tag, children) == Elem(tag, <<>>, <<>>, children)

\* elem.get(name): the attribute's value or None
GetAttr(e, name) ==
    IF \E k \in 1..Len(e.attrs) : e.attrs[k][1] = name
    THEN PyStr(e.attrs[CHOOSE k \in 1..Len(e.attrs) : e.attrs[k][1] = name][2])
    ELSE PyNone

\* all descendants of the elements of es, in document order
RECURSIVE DescSeq(_)
DescSeq(es) ==
    IF es = <<>> THEN <<>>
    ELSE <<Head(es)>> \o DescSeq(Head(es).children) \o DescSeq(Tail(es))

RECURSIVE Flatten(_)
Flatten(ss) == IF ss = <<>> THEN <<>> ELSE Head(ss) \o Flatten(Tail(ss))

\* one step of a path: axis "desc" is //tag, axis "child" is /tag
StepFrom(e, step) ==
    SelectSeq(IF step.axis = "desc" THEN DescSeq(e.children) ELSE e.children,
              LAMBDA c : c.tag = step.tag)

RECURSIVE EvalPath(_, _)
EvalPath(es, path) ==
    IF path = <<>> THEN es
    ELSE EvalPath(Flatten([k \in 1..Len(es) |-> StepFrom(es[k], Head(path))]),
                  Tail(path))

\* elem.findall(path)
FindAll(e, path) == EvalPath(<<e>>, path)

D(tag) == [axis |-> "desc", tag |-> tag]

C(tag) == [axis |-> "child", tag |-> tag]

\* qualified name in the NF-e namespace (NAMESPACE maps the prefix nfe)
Q(tag) == "nfe:" \o tag

\* elem.find(path): <<>> for None, else the first match as a one-element sequence
Find(e, path) ==
    LET all == FindAll(e, path) IN IF all = <<>> THEN <<>> ELSE <<all[1]>>

----------------------------------------------------------------------------
(* Field catalog *)

XPATH_MAP == <<
    <<"Chave de Acesso", <<D("nfe:infNFe")>>>>,
    <<"Número da NF", <<D("nfe:ide"), C("nfe:nNF")>>>>,
    <<"Série", <<D("nfe:ide"), C("nfe:serie")>>>>,
    <<"Data e Hora de Emissão", <<D("nfe:ide"), C("nfe:dhEmi")>>>>,
    <<"Natureza da Operação", <<D("nfe:ide"), C("nfe:natOp")>>>>,
    <<"Modelo", <<D("nfe:ide"), C("nfe:mod")>>>>,
    <<"Versão", <<D("nfe:infNFe")>>>>,
    <<"Status do Protocolo", <<D("nfe:protNFe"), C("nfe:infProt"), C("nfe:xMotivo")>>>>,
    <<"CNPJ do Emitente", <<D("nfe:emit"), C("nfe:CNPJ")>>>>,
    <<"CPF do Emitente", <<D("nfe:emit"), C("nfe:CPF")>>>>,
    <<"Razão Social Emitente", <<D("nfe:emit"), C("nfe:xNome")>>>>,
    <<"Nome Fantasia Emitente", <<D("nfe:emit"), C("nfe:xFant")>>>>,
    <<"CNPJ do Destinatário", <<D("nfe:dest"), C("nfe:CNPJ")>>>>,
    <<"CPF do Destinatário", <<D("nfe:dest"), C("nfe:CPF")>>>>,
    <<"Razão Social Destinatário", <<D("nfe:dest"), C("nfe:xNome")>>>>,
    <<"Inscrição Estadual Destinatário", <<D("nfe:dest"), C("nfe:IE")>>>>,
    <<"Número do Item", <<C("nItem")>>>>,
    <<"Cód. Produto", <<D("nfe:prod"), C("nfe:cProd")>>>>,
    <<"Código EAN", <<D("nfe:prod"), C("nfe:cEAN")>>>>,
    <<"Descrição do Produto", <<D("nfe:prod"), C("nfe:xProd")>>>>,
    <<"NCM", <<D("nfe:prod"), C("nfe:NCM")>>>>,
    <<"CEST", <<D("nfe:prod"), C("nfe:CEST")>>>>,
    <<"CFOP do Item", <<D("nfe:prod"), C("nfe:CFOP")>>>>,
    <<"Unidade Comercial", <<D("nfe:prod"), C("nfe:uCom")>>>>,
    <<"Quantidade Comercial", <<D("nfe:prod"), C("nfe:qCom")>>>>,
    <<"Valor Unitário", <<D("nfe:prod"), C("nfe:vUnCom")>>>>,
    <<"Valor Total Item", <<D("nfe:prod"), C("nfe:vProd")>>>>,
    <<"Origem da Mercadoria", <<D("nfe:imposto"), C("nfe:ICMS")>>>>,
    <<"CST ICMS", <<D("nfe:imposto"), C("nfe:ICMS")>>>>,
    <<"Modalidade BC ICMS", <<D("nfe:imposto"), C("nfe:ICMS")>>>>,
    <<"Base Cálculo ICMS", <<D("nfe:imposto"), C("nfe:ICMS")>>>>,
    <<"Alíquota ICMS", <<D("nfe:imposto"), C("nfe:ICMS")>>>>,
    <<"Valor ICMS", <<D("nfe:imposto"), C("nfe:ICMS")>>>>,
    <<"Valor IPI", <<D("nfe:imposto"), C("nfe:IPI")>>>>,
    <<"Valor PIS", <<D("nfe:imposto"), C("nfe:PIS")>>>>,
    <<"Valor COFINS", <<D("nfe:imposto"), C("nfe:COFINS")>>>>,
    <<"BC ICMS UF Destino", <<D("nfe:imposto"), C("nfe:ICMSUFDest"), C("nfe:vBCUFDest")>>>>,
    <<"BC FCP UF Destino", <<D("nfe:imposto"), C("nfe:ICMSUFDest"), C("nfe:vBCFCPUFDest")>>>>,
    <<"Percentual FCP UF Destino", <<D("nfe:imposto"), C("nfe:ICMSUFDest"), C("nfe:pFCPUFDest")>>>>,
    <<"Alíquota Interna UF Destino", <<D("nfe:imposto"), C("nfe:ICMSUFDest"), C("nfe:pICMSUFDest")>>>>,
    <<"Alíquota Interestadual", <<D("nfe:imposto"), C("nfe:ICMSUFDest"), C("nfe:pICMSInter")>>>>,
    <<"Percentual Partilha ICMS", <<D("nfe:imposto"), C("nfe:ICMSUFDest"), C("nfe:pICMSInterPart")>>>>,
    <<"Valor FCP UF Destino", <<D("nfe:imposto"), C("nfe:ICMSUFDest"), C("nfe:vFCPUFDest")>>>>,
    <<"Valor ICMS UF Destino", <<D("nfe:imposto"), C("nfe:ICMSUFDest"), C("nfe:vICMSUFDest")>>>>,
    <<"Valor ICMS UF Remetente", <<D("nfe:imposto"), C("nfe:ICMSUFDest"), C("nfe:vICMSUFRemet")>>>>,
    <<"Valor Total da NF", <<D("nfe:total"), C("nfe:ICMSTot"), C("nfe:vNF")>>>>,
    <<"Valor Total dos Produtos", <<D("nfe:total"), C("nfe:ICMSTot"), C("nfe:vProd")>>>>,
    <<"Valor Total do ICMS", <<D("nfe:total"), C("nfe:ICMSTot"), C("nfe:vICMS")>>>>,
    <<"Valor Total do IPI", <<D("nfe:total"), C("nfe:ICMSTot"), C("nfe:vIPI")>>>>
>>

ITEM_FIELDS == <<
    "Número do Item",
    "Cód. Produto",
    "Código EAN",
    "Descrição do Produto",
    "NCM",
    "CEST",
    "CFOP do Item",
    "Unidade Comercial",
    "Quantidade Comercial",
    "Valor Unitário",
    "Valor Total Item",
    "Origem da Mercadoria",
    "CST ICMS",
    "Modalidade BC ICMS",
    "Base Cálculo ICMS",
    "Alíquota ICMS",
    "Valor ICMS",
    "Valor IPI",
    "Valor PIS",
    "Valor COFINS",
    "BC ICMS UF Destino",
    "BC FCP UF Destino",
    "Percentual FCP UF Destino",
    "Alíquota Interna UF Destino",
    "Alíquota Interestadual",
    "Percentual Partilha ICMS",
    "Valor FCP UF Destino",
    "Valor ICMS UF Destino",
    "Valor ICMS UF Remetente"
>>

CatalogNames == {XPATH_MAP[k][1] : k \in 1..Len(XPATH_MAP)}

\* XPATH_MAP.get(name): the path, or <<>> (falsy) for an unknown name
XPathGet(name) ==
    IF name \in CatalogNames
    THEN XPATH_MAP[CHOOSE k \in 1..Len(XPATH_MAP) : XPATH_MAP[k][1] = name][2]
    ELSE <<>>

ItemFieldSet == {ITEM_FIELDS[k] : k \in 1..Len(ITEM_FIELDS)}

\* the columns process_nfe_files converts with pd.to_numeric
numeric_fields == {
    "Quantidade Comercial", "Valor Unitário", "Valor Total Item",
    "Base Cálculo ICMS", "Alíquota ICMS", "Valor ICMS",
    "Valor IPI", "Valor PIS", "Valor COFINS",
    "Valor Total da NF", "Valor Total dos Produtos", "Valor Total do ICMS",
    "Valor Total do IPI",
    "BC ICMS UF Destino", "BC FCP UF Destino", "Percentual FCP UF Destino",
    "Alíquota Interna UF Destino", "Alíquota Interestadual",
    "Percentual Partilha ICMS",
    "Valor FCP UF Destino", "Valor ICMS UF Destino", "Valor ICMS UF Remetente"}

\* the DIFAL fields and their tags (tag_map of the item loop)
tag_map == <<
    <<"BC ICMS UF Destino", "vBCUFDest">>,
    <<"BC FCP UF Destino", "vBCFCPUFDest">>,
    <<"Percentual FCP UF Destino", "pFCPUFDest">>,
    <<"Alíquota Interna UF Destino", "pICMSUFDest">>,
    <<"Alíquota Interestadual", "pICMSInter">>,
    <<"Percentual Partilha ICMS", "pICMSInterPart">>,
    <<"Valor FCP UF Destino", "vFCPUFDest">>,
    <<"Valor ICMS UF Destino", "vICMSUFDest">>,
    <<"Valor ICMS UF Remetente", "vICMSUFRemet">>
>>

DifalFields == {tag_map[k][1] : k \in 1..Len(tag_map)}

TagMapGet(name) == tag_map[CHOOSE k \in 1..Len(tag_map) : tag_map[k][1] = name][2]

\* the fields the item loop's except branch defaults to 0.0
ItemExceptNumeric ==
    {"Quantidade Comercial", "Valor Unitário", "Valor Total Item",
     "Base Cálculo ICMS", "Alíquota ICMS", "Valor ICMS",
     "Valor IPI", "Valor PIS", "Valor COFINS"} \cup DifalFields

----------------------------------------------------------------------------
(* Selection: an insertion-ordered dict as a sequence of <<key, bool>> *)

SelKeys(sel) == {sel[k][1] : k \in 1..Len(sel)}

SelGet(sel, name) == sel[CHOOSE k \in 1..Len(sel) : sel[k][1] = name][2]

\* name in selected_fields and selected_fields[name]
IsSelected(sel, name) == name \in SelKeys(sel) /\ SelGet(sel, name)

----------------------------------------------------------------------------
(* Locator helpers *)

\* safe_find_text, but the text is stripped before it is tested
safe_find_text_strip_first(element, xpath, default) ==
    LET found == Find(element, xpath)
    IN  IF found # <<>> /\ Strip(found[1].text) # <<>>
        THEN PyStr(Strip(found[1].text))
        ELSE default

safe_find_text(element, xpath, default) ==
    LET found == Find(element, xpath)
    IN  IF found # <<>> /\ found[1].text # <<>>
        THEN PyStr(Strip(found[1].text))
        ELSE default

safe_find_attribute(element, xpath, attr_name, default) ==
    LET found == Find(element, xpath)
        attr_value == IF found # <<>> THEN GetAttr(found[1], attr_name) ELSE PyNone
    IN  IF Truthy(attr_value) THEN PyStr(Strip(attr_value.s)) ELSE default

\* extract_icms_field, but the leaf is looked up under the ICMS00 wrapper only
extract_icms_field_icms00(item, field_tag) ==
    LET found == Find(item, <<D(Q("imposto")), C(Q("ICMS")), C(Q("ICMS00")),
                              C(Q(field_tag))>>)
    IN  IF found # <<>> /\ found[1].text # <<>>
        THEN LET text_value == Strip(found[1].text)
                 f == ParseFloat(text_value)
             IN  IF f.ok THEN PyFloat(f.v) ELSE PyStr(text_value)
        ELSE PyNone

extract_icms_field(item, field_tag) ==
    LET found == Find(item, <<D(Q("imposto")), C(Q("ICMS")), D(Q(field_tag))>>)
    IN  IF found # <<>> /\ found[1].text # <<>>
        THEN LET text_value == Strip(found[1].text)
                 f == ParseFloat(text_value)
             IN  IF f.ok THEN PyFloat(f.v) ELSE PyStr(text_value)
        ELSE PyNone

\* extract_tax_value, but nothing matched gives None
extract_tax_value_or_none(item, tax_group, value_tag) ==
    LET found == Find(item, <<D(Q("imposto")), C(Q(tax_group)), D(Q(value_tag))>>)
    IN  IF found # <<>> /\ found[1].text # <<>>
        THEN LET f == ParseFloat(Strip(found[1].text))
             IN  IF f.ok THEN PyFloat(f.v) ELSE PyFloat(0)
        ELSE PyNone

extract_tax_value(item, tax_group, value_tag) ==
    LET found == Find(item, <<D(Q("imposto")), C(Q(tax_group)), D(Q(value_tag))>>)
    IN  IF found # <<>> /\ found[1].text # <<>>
        THEN LET f == ParseFloat(Strip(found[1].text))
             IN  IF f.ok THEN PyFloat(f.v) ELSE PyFloat(0)
        ELSE PyFloat(0)

extract_icmsufdest_field(item, field_tag) ==
    LET found == Find(item, <<D(Q("imposto")), C(Q("ICMSUFDest")), C(Q(field_tag))>>)
    IN  IF found # <<>> /\ found[1].text # <<>>
        THEN LET f == ParseFloat(Strip(found[1].text))
             IN  IF f.ok THEN PyFloat(f.v) ELSE PyNone
        ELSE PyNone

Desconhecida == <<"d", "e", "s", "c", "o", "n", "h", "e", "c", "i", "d", "a">>

detect_nfe_version(root) ==
    safe_find_attribute(root, <<D(Q("infNFe"))>>, "versao", PyStr(Desconhecida))

----------------------------------------------------------------------------
(* Document extractor: the pieces of parse_nfe_xml *)

\* a raw XML buffer: well-formed (wf) with the tree etree.fromstring builds,
\* or malformed
Malformed == [wf |-> FALSE, root |-> Node("", <<>>)]

WellFormed(root) == [wf |-> TRUE, root |-> root]

NFe == <<"N", "F", "e">>

\* HeaderValue, but the tax-ID fields take the CPF first and the CNPJ only
\* when the CPF yields nothing
HeaderValueCpfFirst(root, field_name, nfe_version) ==
    LET xpath == XPathGet(field_name) IN
    IF field_name = "Chave de Acesso" THEN
        LET chave == safe_find_attribute(root, xpath, "Id", PyNone)
        IN  IF Truthy(chave) THEN PyStr(Remove(chave.s, NFe)) ELSE PyNone
    ELSE IF field_name = "Versão" THEN nfe_version
    ELSE IF field_name = "CNPJ do Emitente" THEN
        LET cpf == safe_find_text(root, XPathGet("CPF do Emitente"), PyNone)
        IN  IF ~Truthy(cpf) THEN safe_find_text(root, xpath, PyNone) ELSE cpf
    ELSE IF field_name = "CNPJ do Destinatário" THEN
        LET cpf == safe_find_text(root, XPathGet("CPF do Destinatário"), PyNone)
        IN  IF ~Truthy(cpf) THEN safe_find_text(root, xpath, PyNone) ELSE cpf
    ELSE safe_find_text(root, xpath, PyNone)

\* the body of the header loop's try block for one field
HeaderValue(root, field_name, nfe_version) ==
    LET xpath == XPathGet(field_name) IN
    IF field_name = "Chave de Acesso" THEN
        LET chave == safe_find_attribute(root, xpath, "Id", PyNone)
        IN  IF Truthy(chave) THEN PyStr(Remove(chave.s, NFe)) ELSE PyNone
    ELSE IF field_name = "Versão" THEN nfe_version
    ELSE IF field_name = "CNPJ do Emitente" THEN
        LET cnpj == safe_find_text(root, xpath, PyNone)
        IN  IF ~Truthy(cnpj)
            THEN safe_find_text(root, XPathGet("CPF do Emitente"), PyNone)
            ELSE cnpj
    ELSE IF field_name = "CNPJ do Destinatário" THEN
        LET cnpj == safe_find_text(root, xpath, PyNone)
        IN  IF ~Truthy(cnpj)
            THEN safe_find_text(root, XPathGet("CPF do Destinatário"), PyNone)
            ELSE cnpj
    ELSE safe_find_text(root, xpath, PyNone)

\* HeaderKeys, but a key without a locator in the catalog is not skipped
HeaderKeysKeepUnknown(sel) ==
    {f \in SelKeys(sel) : SelGet(sel, f) /\ f \notin ItemFieldSet}

\* the keys the header loop does not skip
HeaderKeys(sel) ==
    {f \in SelKeys(sel) : SelGet(sel, f) /\ f \notin ItemFieldSet /\ XPathGet(f) # <<>>}

\* the header loop: header_data once it has run over the selection; a field
\* whose try block raises is stored by the except branch
HeaderLoop(root, sel) ==
    LET nfe_version == detect_nfe_version(root)
    IN  [f \in HeaderKeys(sel) |->
            IF f \in raising THEN PyNone ELSE HeaderValue(root, f, nfe_version)]

\* the body of the item loop's try block for one field
ItemFieldBody(item, field_name) ==
    IF field_name = "Origem da Mercadoria" THEN extract_icms_field(item, "orig")
    ELSE IF field_name = "CST ICMS" THEN extract_icms_field(item, "CST")
    ELSE IF field_name = "Modalidade BC ICMS" THEN extract_icms_field(item, "modBC")
    ELSE IF field_name = "Base Cálculo ICMS" THEN
        LET value == extract_icms_field(item, "vBC")
        IN  IF value # PyNone THEN value ELSE PyFloat(0)
    ELSE IF field_name = "Alíquota ICMS" THEN
        LET value == extract_icms_field(item, "pICMS")
        IN  IF value # PyNone THEN value ELSE PyFloat(0)
    ELSE IF field_name = "Valor ICMS" THEN
        LET value == extract_icms_field(item, "vICMS")
        IN  IF value # PyNone THEN value ELSE PyFloat(0)
    ELSE IF field_name = "Valor IPI" THEN extract_tax_value(item, "IPI", "vIPI")
    ELSE IF field_name = "Valor PIS" THEN extract_tax_value(item, "PIS", "vPIS")
    ELSE IF field_name = "Valor COFINS" THEN extract_tax_value(item, "COFINS", "vCOFINS")
    ELSE IF field_name \in DifalFields THEN
        LET value == extract_icmsufdest_field(item, TagMapGet(field_name))
        IN  IF value # PyNone THEN value ELSE PyFloat(0)
    ELSE IF field_name \in {"Quantidade Comercial", "Valor Unitário", "Valor Total Item"} THEN
        LET text_value == safe_find_text(item, XPathGet(field_name), PyNone)
        IN  IF Truthy(text_value)
            THEN LET f == ParseFloat(text_value.s)
                 IN  IF f.ok THEN PyFloat(f.v) ELSE PyFloat(0)
            ELSE PyFloat(0)
    ELSE safe_find_text(item, XPathGet(field_name), PyNone)

\* ItemExceptDefault, but every field is stored as absent
ItemExceptDefaultNone(field_name) == PyNone

\* the except branch of the item loop: the value stored for a field whose
\* try block raised
ItemExceptDefault(field_name) ==
    IF field_name \in ItemExceptNumeric THEN PyFloat(0) ELSE PyNone

\* ItemValue, but the sequence number is read from a child element nItem
ItemValueNItemFromChild(item, field_name) ==
    IF field_name = "Número do Item"
    THEN safe_find_text(item, <<C(Q("nItem"))>>, PyNone)
    ELSE IF field_name \in raising THEN ItemExceptDefault(field_name)
    ELSE ItemFieldBody(item, field_name)

\* the value the item loop stores for one selected field: the sequence
\* number is read outside the try block, a field whose try block raises is
\* stored by the except branch
ItemValue(item, field_name) ==
    IF field_name = "Número do Item"
    THEN LET nitem == GetAttr(item, "nItem")
         IN  IF Truthy(nitem) THEN nitem ELSE PyNone
    ELSE IF field_name \in raising THEN ItemExceptDefault(field_name)
    ELSE ItemFieldBody(item, field_name)

\* the ITEM_FIELDS the item loop does not skip
ItemKeys(sel) == {f \in ItemFieldSet : IsSelected(sel, f)}

\* ItemRow, but a field whose value is absent gets no key
ItemRowOmitAbsent(item, hdr, sel) ==
    [f \in (DOMAIN hdr) \cup {g \in ItemKeys(sel) : ItemValue(item, g) # PyNone} |->
        IF f \in ItemKeys(sel) THEN ItemValue(item, f) ELSE hdr[f]]

\* one iteration of the item loop: the record built for one det node
ItemRow(item, hdr, sel) ==
    [f \in (DOMAIN hdr) \cup ItemKeys(sel) |->
        IF f \in ItemKeys(sel) THEN ItemValue(item, f) ELSE hdr[f]]

\* root.findall('.//nfe:det')
FindItems(root) == FindAll(root, <<D(Q("det"))>>)

\* ParseStart, but the det nodes of a document of unknown version are ignored
ParseStartVersionGate(xml_content, sel) ==
    IF ~xml_content.wf
    THEN [returned |-> TRUE, records |-> <<>>, hdr |-> <<>>, its |-> <<>>]
    ELSE LET hdr == HeaderLoop(xml_content.root, sel)
             its == IF detect_nfe_version(xml_content.root) = PyStr(Desconhecida)
                    THEN <<>> ELSE FindItems(xml_content.root)
         IN  IF its = <<>>
             THEN [returned |-> TRUE,
                   records |-> (IF DOMAIN hdr # {} THEN <<hdr>> ELSE <<>>),
                   hdr |-> hdr, its |-> its]
             ELSE [returned |-> FALSE, records |-> <<>>, hdr |-> hdr, its |-> its]

\* ParseStart, but without item fields selected the Document Record alone is
\* returned whatever the number of det nodes
ParseStartOneRowWithoutItemFields(xml_content, sel) ==
    IF ~xml_content.wf
    THEN [returned |-> TRUE, records |-> <<>>, hdr |-> <<>>, its |-> <<>>]
    ELSE LET hdr == HeaderLoop(xml_content.root, sel)
             its == FindItems(xml_content.root)
         IN  IF its = <<>> \/ ItemKeys(sel) = {}
             THEN [returned |-> TRUE,
                   records |-> (IF DOMAIN hdr # {} THEN <<hdr>> ELSE <<>>),
                   hdr |-> hdr, its |-> its]
             ELSE [returned |-> FALSE, records |-> <<>>, hdr |-> hdr, its |-> its]

\* ParseStart, but a malformed buffer yields one empty record
ParseStartRowOnMalformed(xml_content, sel) ==
    IF ~xml_content.wf
    THEN [returned |-> TRUE, records |-> << <<>> >>, hdr |-> <<>>, its |-> <<>>]
    ELSE LET hdr == HeaderLoop(xml_content.root, sel)
             its == FindItems(xml_content.root)
         IN  IF its = <<>>
             THEN [returned |-> TRUE,
                   records |-> (IF DOMAIN hdr # {} THEN <<hdr>> ELSE <<>>),
                   hdr |-> hdr, its |-> its]
             ELSE [returned |-> FALSE, records |-> <<>>, hdr |-> hdr, its |-> its]

\* ParseStart, but a document without det nodes yields nothing
ParseStartNoFallback(xml_content, sel) ==
    IF ~xml_content.wf
    THEN [returned |-> TRUE, records |-> <<>>, hdr |-> <<>>, its |-> <<>>]
    ELSE LET hdr == HeaderLoop(xml_content.root, sel)
             its == FindItems(xml_content.root)
         IN  IF its = <<>>
             THEN [returned |-> TRUE, records |-> <<>>, hdr |-> hdr, its |-> its]
             ELSE [returned |-> FALSE, records |-> <<>>, hdr |-> hdr, its |-> its]

\* ParseStart, but the Document Record of a document without det nodes is
\* returned even when it has no entries
ParseStartKeepEmptyHeader(xml_content, sel) ==
    IF ~xml_content.wf
    THEN [returned |-> TRUE, records |-> <<>>, hdr |-> <<>>, its |-> <<>>]
    ELSE LET hdr == HeaderLoop(xml_content.root, sel)
             its == FindItems(xml_content.root)
         IN  IF its = <<>>
             THEN [returned |-> TRUE, records |-> <<hdr>>, hdr |-> hdr, its |-> its]
             ELSE [returned |-> FALSE, records |-> <<>>, hdr |-> hdr, its |-> its]

\* ParseStart, but the Document Record of a document without det nodes is
\* returned only when one of its values is present
ParseStartDropAbsentHeader(xml_content, sel) ==
    IF ~xml_content.wf
    THEN [returned |-> TRUE, records |-> <<>>, hdr |-> <<>>, its |-> <<>>]
    ELSE LET hdr == HeaderLoop(xml_content.root, sel)
             its == FindItems(xml_content.root)
         IN  IF its = <<>>
             THEN [returned |-> TRUE,
                   records |-> (IF \E f \in DOMAIN hdr : hdr[f] # PyNone
                                THEN <<hdr>> ELSE <<>>),
                   hdr |-> hdr, its |-> its]
             ELSE [returned |-> FALSE, records |-> <<>>, hdr |-> hdr, its |-> its]

\* parse_nfe_xml up to the item loop: fromstring, the header loop, findall and
\* the return for a document without det nodes.  returned tells whether the
\* call is over, records what it then returns.
ParseStart(xml_content, sel) ==
    IF ~xml_content.wf
    THEN [returned |-> TRUE, records |-> <<>>, hdr |-> <<>>, its |-> <<>>]
    ELSE LET hdr == HeaderLoop(xml_content.root, sel)
             its == FindItems(xml_content.root)
         IN  IF its = <<>>
             THEN [returned |-> TRUE,
                   records |-> (IF DOMAIN hdr # {} THEN <<hdr>> ELSE <<>>),
                   hdr |-> hdr, its |-> its]
             ELSE [returned |-> FALSE, records |-> <<>>, hdr |-> hdr, its |-> its]

\* ItemStep, but row_data is header_data itself instead of a copy: the
\* records appended so far are that same dict and show the item's values too
ItemStepShared(res, item, hdr, sel) ==
    [k \in 1..(Len(res) + 1) |-> ItemRow(item, hdr, sel)]

\* ItemStep, but a det node without an imposto group adds no record
ItemStepSkipUntaxed(res, item, hdr, sel) ==
    IF Find(item, <<C(Q("imposto"))>>) = <<>> THEN res
    ELSE Append(res, ItemRow(item, hdr, sel))

\* one iteration of the item loop: results after results.append(row_data)
ItemStep(res, item, hdr, sel) == Append(res, ItemRow(item, hdr, sel))

RECURSIVE ItemLoop(_, _, _, _)
ItemLoop(res, its, hdr, sel) ==
    IF its = <<>> THEN res
    ELSE ItemLoop(ItemStep(res, Head(its), hdr, sel), Tail(its), hdr, sel)

\* the return after the item loop
ParseResult(res, hdr) == IF res # <<>> THEN res ELSE <<hdr>>

\* parse_nfe_xml as one function
parse_nfe_xml(xml_content, sel) ==
    LET st == ParseStart(xml_content, sel)
    IN  IF st.returned THEN st.records
        ELSE ParseResult(ItemLoop(<<>>, st.its, st.hdr, sel), st.hdr)

----------------------------------------------------------------------------
(* Archive unwrapper *)

DotZip == <<".", "z", "i", "p">>

DotXml == <<".", "x", "m", "l">>

\* bytes that are neither a document nor an archive
Junk == [fmt |-> "junk", buf |-> Malformed, members |-> <<>>]

\* the bytes of a blob read as an XML buffer
AsBuffer(content) == IF content.fmt = "xml" THEN content.buf ELSE Malformed

\* zip_ref.getinfo(name): the archive resolves a name to the last member that
\* bears it
GetInfo(members, filename) ==
    members[CHOOSE k \in 1..Len(members) :
                /\ members[k].filename = filename
                /\ \A j \in (k + 1)..Len(members) : members[j].filename # filename]

\* one member of zip_ref.filelist: zip_ref.read(zip_info.filename) inside its
\* own try/except; the buffers it adds
ReadMember(members, zip_info) ==
    IF EndsWith(Lower(zip_info.filename), DotXml)
    THEN LET m == GetInfo(members, zip_info.filename)
         IN  IF m.ok THEN <<m.buf>> ELSE <<>>
    ELSE <<>>

\* ExtractBody, but a blob whose name has neither suffix is taken as XML
ExtractBodyAnyName(file) ==
    IF ~file.readable THEN [exc |-> TRUE, bufs |-> <<>>]
    ELSE IF EndsWith(file.name, DotZip) THEN
        IF file.content.fmt # "zip" THEN [exc |-> TRUE, bufs |-> <<>>]
        ELSE [exc |-> FALSE,
              bufs |-> Flatten([k \in 1..Len(file.content.members) |->
                                  ReadMember(file.content.members, file.content.members[k])])]
    ELSE [exc |-> FALSE, bufs |-> <<AsBuffer(file.content)>>]

\* the try block of the loop over uploaded_files, for one blob: the buffers it
\* appends, or exc when file.read or ZipFile raises
ExtractBody(file) ==
    IF ~file.readable THEN [exc |-> TRUE, bufs |-> <<>>]
    ELSE IF EndsWith(file.name, DotZip) THEN
        IF file.content.fmt # "zip" THEN [exc |-> TRUE, bufs |-> <<>>]
        ELSE [exc |-> FALSE,
              bufs |-> Flatten([k \in 1..Len(file.content.members) |->
                                  ReadMember(file.content.members, file.content.members[k])])]
    ELSE IF EndsWith(Lower(file.name), DotXml)
        THEN [exc |-> FALSE, bufs |-> <<AsBuffer(file.content)>>]
    ELSE [exc |-> FALSE, bufs |-> <<>>]

\* ExtractIteration, but without the except clause
ExtractIterationNoCatch(file) ==
    LET r == ExtractBody(file) IN [raised |-> r.exc, bufs |-> r.bufs]

\* one iteration of the loop with its except clause (continue)
ExtractIteration(file) ==
    LET r == ExtractBody(file)
    IN  IF r.exc THEN [raised |-> FALSE, bufs |-> <<>>]
        ELSE [raised |-> FALSE, bufs |-> r.bufs]

\* file.read() at position p: the bytes from there on, none at the end
FileAt(file, p) == IF p = 0 THEN file ELSE [file EXCEPT !.content = Junk]

\* PositionAfter, but file.seek(0) is left out
PositionAfterNoSeek(file, p) == IF file.readable THEN 1 ELSE p

\* the position of a blob after file.read() and file.seek(0): a read that
\* raises moves nothing and skips the seek
PositionAfter(file, p) == IF file.readable THEN 0 ELSE p

extract_xml_from_files(files) ==
    Flatten([k \in 1..Len(files) |-> ExtractIteration(files[k]).bufs])

----------------------------------------------------------------------------
(* Batch aggregator: the table *)

\* pd.DataFrame()
EmptyFrame == [columns |-> <<>>, rows |-> <<>>]

\* df.columns of pd.DataFrame(all_records): the union of the records' keys
FrameColumns(recs) == UNION {DOMAIN recs[k] : k \in 1..Len(recs)}

\* the cell pd.DataFrame(all_records) holds: NaN where the record has no such
\* key.  A None stored under a key is kept as None (pandas shows it as NaN in a
\* column it infers to be numeric; both are the absent marker).
FrameCell(rec, col) == IF col \in DOMAIN rec THEN rec[col] ELSE PyNaN

\* OrderedCols, but in the order of the catalog instead of the selection's
OrderedColsByCatalog(sel, recs) ==
    LET keep(p) == p[1] \in FrameColumns(recs) /\ IsSelected(sel, p[1])
        kept == SelectSeq(XPATH_MAP, keep)
    IN  [k \in 1..Len(kept) |-> kept[k][1]]

\* ordered_cols
OrderedCols(sel, recs) ==
    LET keep(p) == p[1] \in FrameColumns(recs) /\ p[2]
        kept == SelectSeq(sel, keep)
    IN  [k \in 1..Len(kept) |-> kept[k][1]]

\* the catalog names that contain one of the keywords of the backfill loop
\* ('Valor', 'Quantidade', 'Alíquota', 'Base', 'Percentual', 'BC')
KeywordNames ==
    (numeric_fields \cup {"Modalidade BC ICMS"})

\* the backfill loop: the value a column of ordered_cols missing from df gets
BackfillCell(col) == IF col \in KeywordNames THEN PyFloat(0) ELSE PyNone

\* pd.to_numeric(errors='coerce') on one cell
ToNumeric(val) ==
    IF val.t = "float" THEN val
    ELSE IF val.t = "str"
        THEN LET f == ParseFloat(val.s) IN IF f.ok THEN PyFloat(f.v) ELSE PyNaN
    ELSE PyNaN

\* FillNa, but the fill is forgotten
FillNaForgotten(val) == val

\* .fillna(0.0) on one cell
FillNa(val) == IF val.t = "nan" THEN PyFloat(0) ELSE val

\* the conversion of one cell of column col
ConvertCell(col, val) == IF col \in numeric_fields THEN FillNa(ToNumeric(val)) ELSE val

\* BuildFrame, but the rows come out last record first
BuildFrameReversed(recs, sel) ==
    LET present == FrameColumns(recs)
        cols == OrderedCols(sel, recs)
        colset == {cols[k] : k \in 1..Len(cols)}
    IN  [columns |-> cols,
         rows |-> [r \in 1..Len(recs) |->
                     [c \in colset |->
                        ConvertCell(c, IF c \in present
                                       THEN FrameCell(recs[Len(recs) + 1 - r], c)
                                       ELSE BackfillCell(c))]]]

\* from pd.DataFrame(all_records) to the returned table
BuildFrame(recs, sel) ==
    LET present == FrameColumns(recs)
        cols == OrderedCols(sel, recs)
        colset == {cols[k] : k \in 1..Len(cols)}
    IN  [columns |-> cols,
         rows |-> [r \in 1..Len(recs) |->
                     [c \in colset |->
                        ConvertCell(c, IF c \in present THEN FrameCell(recs[r], c)
                                       ELSE BackfillCell(c))]]]

\* the loop over xml_contents with the rest of process_nfe_files
ProcessBuffers(bufs, sel) ==
    LET recs == Flatten([k \in 1..Len(bufs) |-> parse_nfe_xml(bufs[k], sel)])
    IN  IF bufs = <<>> \/ recs = <<>> THEN EmptyFrame ELSE BuildFrame(recs, sel)

process_nfe_files(files, sel) ==
    IF files = <<>> THEN EmptyFrame
    ELSE ProcessBuffers(extract_xml_from_files(files), sel)

----------------------------------------------------------------------------
(* Dashboard: calculate_kpis *)

\* the kpis dict calculate_kpis starts from; media_itens is a quotient
NoKpis ==
    [total_faturado |-> 0, total_nfe |-> 0, media_itens |-> [num |-> 0, den |-> 1]]

\* df.empty: no rows or no columns
FrameEmpty(d) == d.rows = <<>> \/ d.columns = <<>>

\* col in df.columns
HasColumn(d, col) == \E k \in 1..Len(d.columns) : d.columns[k] = col

\* the missing-value markers, which pandas treats as one and the same key
IsNA(val) == val.t \in {"None", "nan"}

SameKey(a, b) == (IsNA(a) /\ IsNA(b)) \/ a = b

RECURSIVE DropDup(_, _, _)
DropDup(kept, rest, col) ==
    IF rest = <<>> THEN kept
    ELSE LET r == Head(rest)
             seen == \E j \in 1..Len(kept) : SameKey(kept[j][col], r[col])
         IN  DropDup(IF seen THEN kept ELSE Append(kept, r), Tail(rest), col)

\* df.drop_duplicates(subset=col): the first row of every key, in order
drop_duplicates(rows, col) == DropDup(<<>>, rows, col)

\* pd.to_numeric(df[col], errors='coerce').sum(): missing values are skipped
RECURSIVE SumSeries(_, _)
SumSeries(rows, col) ==
    IF rows = <<>> THEN 0
    ELSE LET val == ToNumeric(Head(rows)[col])
         IN  (IF val.t = "float" THEN val.v ELSE 0) + SumSeries(Tail(rows), col)

\* df[col].nunique(): the number of different values, missing ones left out
nunique(rows, col) ==
    Cardinality({rows[k][col] : k \in {j \in 1..Len(rows) : ~IsNA(rows[j][col])}})

calculate_kpis(d) ==
    IF FrameEmpty(d) THEN NoKpis
    ELSE LET total ==
                 IF ~HasColumn(d, "Valor Total da NF") THEN 0
                 ELSE IF HasColumn(d, "Chave de Acesso")
                     THEN SumSeries(drop_duplicates(d.rows, "Chave de Acesso"),
                                    "Valor Total da NF")
                 ELSE IF HasColumn(d, "Número da NF")
                     THEN SumSeries(drop_duplicates(d.rows, "Número da NF"),
                                    "Valor Total da NF")
                 ELSE SumSeries(d.rows, "Valor Total da NF")
             total_nfe ==
                 IF HasColumn(d, "Chave de Acesso") THEN nunique(d.rows, "Chave de Acesso")
                 ELSE IF HasColumn(d, "Número da NF") THEN nunique(d.rows, "Número da NF")
                 ELSE Len(d.rows)
         IN  [total_faturado |-> total,
              total_nfe |-> total_nfe,
              media_itens |-> IF total_nfe > 0
                              THEN [num |-> Len(d.rows), den |-> total_nfe]
                              ELSE [num |-> 0, den |-> 1]]

----------------------------------------------------------------------------
(* Inputs: documents, blobs and selections the runs are drawn from *)

\* det nItem="1": product A, ICMS00 with numeric amounts, IPI, PIS, DIFAL
ItemA ==
    Elem(Q("det"), << <<"nItem", <<"1">>>> >>, <<>>, <<
        Node(Q("prod"), <<Leaf(Q("cProd"), <<"7">>),
                          Leaf(Q("xProd"), <<"A">>),
                          Leaf(Q("qCom"), <<"2">>),
                          Leaf(Q("vProd"), <<"1", "0", ".", "5", "0">>)>>),
        Node(Q("imposto"), <<
            Node(Q("ICMS"), <<Node(Q("ICMS00"), <<
                Leaf(Q("orig"), <<"0">>),
                Leaf(Q("CST"), <<"0", "0">>),
                Leaf(Q("vBC"), <<"1", "0", ".", "5", "0">>),
                Leaf(Q("pICMS"), <<"1", "8">>),
                Leaf(Q("vICMS"), <<"1", ".", "8", "9">>)>>)>>),
            Node(Q("IPI"), <<Node(Q("IPITrib"), <<Leaf(Q("vIPI"), <<"0", ".", "5">>)>>)>>),
            Node(Q("PIS"), <<Node(Q("PISAliq"), <<Leaf(Q("vPIS"), <<"3">>)>>)>>),
            Node(Q("ICMSUFDest"), <<Leaf(Q("vICMSUFDest"), <<"4", ".", "2">>)>>)>>)>>)

\* det nItem="2": product B, no imposto node at all, quantity with a comma
ItemB ==
    Elem(Q("det"), << <<"nItem", <<"2">>>> >>, <<>>, <<
        Node(Q("prod"), <<Leaf(Q("xProd"), <<" ", "B", " ">>),
                          Leaf(Q("qCom"), <<"1", ",", "5">>)>>)>>)

\* det without nItem: blank description, non-numeric and blank tax amounts
ItemC ==
    Elem(Q("det"), <<>>, <<>>, <<
        Node(Q("prod"), <<Leaf(Q("xProd"), <<" ">>),
                          Leaf(Q("vProd"), <<"x">>)>>),
        Node(Q("imposto"), <<
            Node(Q("ICMS"), <<Node(Q("ICMS10"), <<
                Leaf(Q("CST"), <<"1", "0">>),
                Leaf(Q("vBC"), <<" ">>),
                Leaf(Q("vICMS"), <<"a", "b", "c">>)>>)>>),
            Node(Q("IPI"), <<Leaf(Q("vIPI"), <<"a">>)>>),
            Node(Q("COFINS"), <<Node(Q("COFINSNT"), <<>>)>>),
            Node(Q("ICMSUFDest"), <<Leaf(Q("vICMSUFDest"), <<"b">>)>>)>>)>>)

ItemSamples == <<ItemA, ItemB, ItemC>>

\* n det nodes, taken in turn from the samples starting after offset
ItemsOf(offset, n) ==
    [k \in 1..n |-> ItemSamples[((offset + k - 1) % Len(ItemSamples)) + 1]]

\* header groups with every value present and numeric totals
HdrFull == [
    infAttrs |-> << <<"Id", <<"N", "F", "e", "3", "5">>>>,
                    <<"versao", <<"4", ".", "0", "0">>>> >>,
    ide   |-> <<Leaf(Q("nNF"), <<"1", "2", "3">>), Leaf(Q("serie"), <<"1">>)>>,
    emit  |-> <<Leaf(Q("CNPJ"), <<"1", "1">>), Leaf(Q("CPF"), <<"2", "2">>),
                Leaf(Q("xNome"), <<"E">>)>>,
    dest  |-> <<Leaf(Q("CPF"), <<"3", "3">>)>>,
    tot   |-> <<Leaf(Q("vNF"), <<"5", "0", "0", ".", "0", "0">>),
                Leaf(Q("vProd"), <<"4", "0", "0">>)>>,
    offset |-> 0]

\* header groups with attributes and values missing, blank or non-numeric
HdrSparse == [
    infAttrs |-> <<>>,
    ide   |-> <<Leaf(Q("nNF"), <<>>), Leaf(Q("serie"), <<" ">>)>>,
    emit  |-> <<Leaf(Q("CNPJ"), <<>>), Leaf(Q("CPF"), <<"2", "2">>)>>,
    dest  |-> <<>>,
    tot   |-> <<Leaf(Q("vNF"), <<"a", "b", "c">>)>>,
    offset |-> 1]

HdrSamples == {HdrFull, HdrSparse}

\* an NF-e document: nfeProc / NFe / infNFe / (ide, emit, dest, det*, total)
NFeDoc(h, dets) ==
    WellFormed(
        Node(Q("nfeProc"), <<
            Node(Q("NFe"), <<
                Elem(Q("infNFe"), h.infAttrs, <<>>,
                     <<Node(Q("ide"), h.ide), Node(Q("emit"), h.emit),
                       Node(Q("dest"), h.dest)>>
                     \o dets
                     \o <<Node(Q("total"), <<Node(Q("ICMSTot"), h.tot)>>)>>)>>)>>))

\* a well-formed document that is no NF-e
NonNFe == WellFormed(Node("html", <<Leaf("body", <<"x">>)>>))

NFeDocs == {NFeDoc(h, ItemsOf(h.offset, n)) : h \in HdrSamples, n \in 0..MaxItems}

DocSamples == NFeDocs \cup {Malformed, NonNFe}

XmlContent(buf) == [fmt |-> "xml", buf |-> buf, members |-> <<>>]

ZipContent(members) == [fmt |-> "zip", buf |-> Malformed, members |-> members]

Blob(name, readable, content) ==
    [name |-> name, readable |-> readable, content |-> content]

Member(filename, ok, buf) == [filename |-> filename, ok |-> ok, buf |-> buf]

NameAXml == <<"a", ".", "x", "m", "l">>

NameBXml == <<"b", ".", "X", "M", "L">>

NameCTxt == <<"c", ".", "t", "x", "t">>

NameZip == <<"z", ".", "z", "i", "p">>

NameZipUpper == <<"Z", ".", "Z", "I", "P">>

DocTwo == NFeDoc(HdrFull, ItemsOf(0, 2))

DocOne == NFeDoc(HdrSparse, ItemsOf(1, 1))

ZipSamples == {
    ZipContent(<<Member(NameAXml, TRUE, Malformed), Member(NameBXml, TRUE, DocTwo)>>),
    ZipContent(<<Member(NameAXml, TRUE, DocOne), Member(NameBXml, TRUE, DocTwo)>>),
    ZipContent(<<Member(NameAXml, TRUE, DocOne), Member(NameAXml, TRUE, DocTwo)>>),
    ZipContent(<<Member(NameAXml, TRUE, DocOne), Member(NameAXml, FALSE, DocTwo)>>),
    ZipContent(<<Member(NameAXml, FALSE, DocTwo), Member(NameCTxt, TRUE, DocTwo),
                 Member(NameBXml, TRUE, DocOne)>>)}

BlobSamples ==
    {Blob(NameAXml, TRUE, XmlContent(d)) : d \in DocSamples}
    \cup {Blob(NameZip, TRUE, z) : z \in ZipSamples}
    \cup {Blob(NameBXml, TRUE, XmlContent(DocOne)),
          Blob(NameCTxt, TRUE, XmlContent(DocTwo)),
          Blob(NameAXml, FALSE, XmlContent(DocTwo)),
          Blob(NameZip, TRUE, Junk),
          Blob(NameZipUpper, TRUE,
               ZipContent(<<Member(NameAXml, TRUE, DocOne)>>))}

RECURSIVE SeqsUpTo(_, _)
SeqsUpTo(S, n) ==
    IF n = 0 THEN {<<>>}
    ELSE LET shorter == SeqsUpTo(S, n - 1)
         IN  shorter \cup {Append(q, x) : q \in {p \in shorter : Len(p) = n - 1}, x \in S}

Batches == SeqsUpTo(BlobSamples, MaxFiles)

SelectionSamples == {
    <<>>,
    << <<"Número da NF", TRUE>>, <<"Valor Total da NF", TRUE>> >>,
    << <<"Valor Total da NF", TRUE>>, <<"Descrição do Produto", TRUE>>,
       <<"Número da NF", TRUE>> >>,
    << <<"Valor ICMS", TRUE>>, <<"Número do Item", TRUE>>,
       <<"Quantidade Comercial", TRUE>>, <<"Valor Total Item", TRUE>>,
       <<"CST ICMS", TRUE>> >>,
    << <<"Número da NF", FALSE>>, <<"Valor ICMS", FALSE>> >>,
    << <<"Valor ICMS UF Destino", TRUE>>, <<"CNPJ do Emitente", TRUE>>,
       <<"Valor IPI", TRUE>>, <<"Chave de Acesso", TRUE>>, <<"Versão", TRUE>>,
       <<"CNPJ do Destinatário", TRUE>> >>,
    << <<"Campo Desconhecido", TRUE>>, <<"Base Cálculo ICMS", TRUE>>,
       <<"Valor Total Item", FALSE>>, <<"Série", TRUE>> >>,
    << <<"Campo Desconhecido", TRUE>> >>}

----------------------------------------------------------------------------
(* process_nfe_files step by step *)

Init ==
    /\ uploaded_files \in Batches
    /\ selected_fields \in SelectionSamples
    /\ pc = "start"
    /\ fi = 1
    /\ xml_contents = <<>>
    /\ xi = 1
    /\ header_data = <<>>
    /\ items = <<>>
    /\ ii = 1
    /\ results = <<>>
    /\ records = <<>>
    /\ all_records = <<>>
    /\ df = EmptyFrame
    /\ position = [k \in 1..Len(uploaded_files) |-> 0]
    /\ raising = {}
    /\ call = 1
    /\ first_df = EmptyFrame
    /\ source_docs = <<>>
    /\ df_dashboard = EmptyFrame
    /\ kpis = NoKpis
    /\ df_processado = EmptyFrame
    /\ run_log = <<>>

ParseLocals == <<header_data, items, ii, results, records>>

\* process_nfe_files is entered: no blobs, an empty table
Begin ==
    /\ pc = "start"
    /\ UNCHANGED <<position, outside>>
    /\ IF uploaded_files = <<>>
       THEN pc' = "done" /\ df' = EmptyFrame
       ELSE pc' = "extract" /\ UNCHANGED df
    /\ UNCHANGED <<uploaded_files, selected_fields, fi, xml_contents, xi,
                   ParseLocals, all_records>>

\* extract_xml_from_files: one blob
ExtractFile ==
    /\ pc = "extract"
    /\ UNCHANGED outside
    /\ fi <= Len(uploaded_files)
    /\ LET r == ExtractIteration(FileAt(uploaded_files[fi], position[fi]))
       IN  IF r.raised
           THEN pc' = "raised" /\ UNCHANGED <<fi, xml_contents, position>>
           ELSE /\ xml_contents' = xml_contents \o r.bufs
                /\ position' = [position EXCEPT
                                    ![fi] = PositionAfter(uploaded_files[fi], @)]
                /\ fi' = fi + 1
                /\ pc' = "extract"
    /\ UNCHANGED <<uploaded_files, selected_fields, xi, ParseLocals, all_records, df>>

\* extract_xml_from_files returns: no buffers, an empty table
ExtractReturn ==
    /\ pc = "extract"
    /\ UNCHANGED <<position, outside>>
    /\ fi > Len(uploaded_files)
    /\ IF xml_contents = <<>>
       THEN pc' = "done" /\ df' = EmptyFrame
       ELSE pc' = "parse" /\ UNCHANGED df
    /\ UNCHANGED <<uploaded_files, selected_fields, fi, xml_contents, xi,
                   ParseLocals, all_records>>

\* parse_nfe_xml is called on the next buffer and runs up to the item loop
ParseBegin ==
    /\ pc = "parse"
    /\ UNCHANGED <<position, outside>>
    /\ xi <= Len(xml_contents)
    /\ LET st == ParseStart(xml_contents[xi], selected_fields)
       IN  /\ header_data' = st.hdr
           /\ items' = st.its
           /\ results' = <<>>
           /\ ii' = 1
           /\ IF st.returned
              THEN records' = st.records /\ pc' = "extend"
              ELSE UNCHANGED records /\ pc' = "items"
    /\ UNCHANGED <<uploaded_files, selected_fields, fi, xml_contents, xi,
                   all_records, df>>

\* parse_nfe_xml: one iteration of the item loop
ParseItem ==
    /\ pc = "items"
    /\ UNCHANGED <<position, outside>>
    /\ ii <= Len(items)
    /\ results' = ItemStep(results, items[ii], header_data, selected_fields)
    /\ ii' = ii + 1
    /\ UNCHANGED <<uploaded_files, selected_fields, pc, fi, xml_contents, xi,
                   header_data, items, records, all_records, df>>

\* parse_nfe_xml returns after the item loop
ParseReturn ==
    /\ pc = "items"
    /\ UNCHANGED <<position, outside>>
    /\ ii > Len(items)
    /\ records' = ParseResult(results, header_data)
    /\ pc' = "extend"
    /\ UNCHANGED <<uploaded_files, selected_fields, fi, xml_contents, xi,
                   header_data, items, ii, results, all_records, df>>

\* all_records.extend(records), next buffer
Extend ==
    /\ pc = "extend"
    /\ UNCHANGED <<position, outside>>
    /\ all_records' = all_records \o records
    /\ xi' = xi + 1
    /\ pc' = "parse"
    /\ UNCHANGED <<uploaded_files, selected_fields, fi, xml_contents,
                   ParseLocals, df>>

\* after the loop over the buffers: the table
BuildTable ==
    /\ pc = "parse"
    /\ UNCHANGED <<position, outside>>
    /\ xi > Len(xml_contents)
    /\ df' = (IF all_records = <<>> THEN EmptyFrame
              ELSE BuildFrame(all_records, selected_fields))
    /\ pc' = "done"
    /\ UNCHANGED <<uploaded_files, selected_fields, fi, xml_contents, xi,
                   ParseLocals, all_records>>

Next ==
    \/ Begin
    \/ ExtractFile
    \/ ExtractReturn
    \/ ParseBegin
    \/ ParseItem
    \/ ParseReturn
    \/ Extend
    \/ BuildTable

Spec == Init /\ [][Next]_vars

\* process_nfe_files is called once more with the same blob objects and the
\* same selection: its locals are new, the blobs are where the first call
\* left them
CallAgain ==
    /\ pc = "done"
    /\ call = 1
    /\ call' = 2
    /\ first_df' = df
    /\ pc' = "start"
    /\ fi' = 1
    /\ xml_contents' = <<>>
    /\ xi' = 1
    /\ header_data' = <<>>
    /\ items' = <<>>
    /\ ii' = 1
    /\ results' = <<>>
    /\ records' = <<>>
    /\ all_records' = <<>>
    /\ df' = EmptyFrame
    /\ UNCHANGED <<uploaded_files, selected_fields, position, raising,
                   source_docs, df_dashboard, kpis, df_processado, run_log>>

\* the blobs the two calls are made on
AgainBlobs ==
    {Blob(NameAXml, TRUE, XmlContent(DocOne)),
     Blob(NameAXml, TRUE, XmlContent(Malformed)),
     Blob(NameCTxt, TRUE, XmlContent(DocTwo)),
     Blob(NameAXml, FALSE, XmlContent(DocTwo)),
     Blob(NameZip, TRUE, Junk),
     Blob(NameZip, TRUE,
          ZipContent(<<Member(NameAXml, TRUE, DocOne), Member(NameBXml, TRUE, DocTwo)>>))}

InitAgain ==
    /\ uploaded_files \in SeqsUpTo(AgainBlobs, MaxFiles)
    /\ selected_fields \in SelectionSamples
    /\ pc = "start"
    /\ fi = 1
    /\ xml_contents = <<>>
    /\ xi = 1
    /\ header_data = <<>>
    /\ items = <<>>
    /\ ii = 1
    /\ results = <<>>
    /\ records = <<>>
    /\ all_records = <<>>
    /\ df = EmptyFrame
    /\ position = [k \in 1..Len(uploaded_files) |-> 0]
    /\ raising = {}
    /\ call = 1
    /\ first_df = EmptyFrame
    /\ source_docs = <<>>
    /\ df_dashboard = EmptyFrame
    /\ kpis = NoKpis
    /\ df_processado = EmptyFrame
    /\ run_log = <<>>

NextAgain ==
    \/ Next
    \/ CallAgain

SpecAgain == InitAgain /\ [][NextAgain]_vars

\* header groups of a document with the given Id attribute (<<>>: none),
\* invoice number and total
KpiHdr(id, nnf, vnf) == [
    infAttrs |-> (IF id = <<>> THEN <<>> ELSE << <<"Id", id>> >>)
                 \o << <<"versao", <<"4", ".", "0", "0">>>> >>,
    ide   |-> <<Leaf(Q("nNF"), nnf)>>,
    emit  |-> <<Leaf(Q("CNPJ"), <<"1", "1">>)>>,
    dest  |-> <<>>,
    tot   |-> <<Leaf(Q("vNF"), vnf)>>,
    offset |-> 0]

\* the documents behind the table shown on the dashboard: two issuers' invoices
\* of the same number, two documents without the Id attribute, and one without
\* det nodes
KpiDocs ==
    {NFeDoc(KpiHdr(<<"N", "F", "e", "3", "5">>, <<"1", "2", "3">>, <<"5", "0", "0">>),
            ItemsOf(0, 2)),
     NFeDoc(KpiHdr(<<"N", "F", "e", "3", "6">>, <<"1", "2", "3">>, <<"2", "0">>),
            ItemsOf(0, 1)),
     NFeDoc(KpiHdr(<<>>, <<"1", "2", "4">>, <<"2", "0">>), ItemsOf(1, 1)),
     NFeDoc(KpiHdr(<<>>, <<"1", "2", "5">>, <<"5", "0", "0">>), ItemsOf(0, 2)),
     NFeDoc(KpiHdr(<<"N", "F", "e", "3", "7">>, <<"1", "2", "6">>, <<"7", ".", "5">>),
            <<>>)}

KpiSelections == {
    << <<"Chave de Acesso", TRUE>>, <<"Valor Total da NF", TRUE>>,
       <<"Descrição do Produto", TRUE>> >>,
    << <<"Número da NF", TRUE>>, <<"Valor Total da NF", TRUE>>,
       <<"Valor Total Item", TRUE>> >>,
    << <<"Valor Total da NF", TRUE>>, <<"Descrição do Produto", TRUE>> >>,
    << <<"Chave de Acesso", TRUE>>, <<"Número da NF", TRUE>> >>}

\* StoreResult, but the result is stored whether it is empty or not
StoreResultAlways(stored, df_result) == df_result

\* st.session_state.df_processado after the button handler got df_result
StoreResult(stored, df_result) ==
    IF FrameEmpty(df_result) THEN stored ELSE df_result

\* the message the button handler shows for df_result
RunMessage(df_result) == IF FrameEmpty(df_result) THEN "warning" ELSE "success"

\* what the user uploads and selects before pressing the button
AppBatches ==
    {<<Blob(NameAXml, TRUE, XmlContent(DocOne))>>,
     <<Blob(NameAXml, TRUE, XmlContent(DocTwo))>>,
     <<Blob(NameAXml, FALSE, XmlContent(DocTwo))>>,
     <<Blob(NameZip, TRUE, Junk), Blob(NameAXml, TRUE, XmlContent(NonNFe))>>}

AppSelections == {
    <<>>,
    << <<"Número da NF", TRUE>>, <<"Valor ICMS", TRUE>> >>}

\* a new session: the stored table is pd.DataFrame(), nothing uploaded yet
InitApp ==
    /\ df_processado = EmptyFrame
    /\ run_log = <<>>
    /\ uploaded_files = <<>>
    /\ selected_fields = <<>>
    /\ pc = "idle"
    /\ fi = 1
    /\ xml_contents = <<>>
    /\ xi = 1
    /\ header_data = <<>>
    /\ items = <<>>
    /\ ii = 1
    /\ results = <<>>
    /\ records = <<>>
    /\ all_records = <<>>
    /\ df = EmptyFrame
    /\ position = <<>>
    /\ raising = {}
    /\ call = 1
    /\ first_df = EmptyFrame
    /\ source_docs = <<>>
    /\ df_dashboard = EmptyFrame
    /\ kpis = NoKpis

\* the locals of process_nfe_files before and after a call
NoCall ==
    /\ fi' = 1
    /\ xml_contents' = <<>>
    /\ xi' = 1
    /\ header_data' = <<>>
    /\ items' = <<>>
    /\ ii' = 1
    /\ results' = <<>>
    /\ records' = <<>>
    /\ all_records' = <<>>
    /\ df' = EmptyFrame

\* 'Processar Arquivos' is pressed with blobs uploaded: process_nfe_files is
\* called on them and the selection
Press ==
    /\ pc = "idle"
    /\ Len(run_log) < MaxRuns
    /\ \E files \in AppBatches, sel \in AppSelections :
         /\ uploaded_files' = files
         /\ selected_fields' = sel
         /\ position' = [k \in 1..Len(files) |-> 0]
    /\ pc' = "start"
    /\ NoCall
    /\ UNCHANGED <<raising, call, first_df, source_docs, df_dashboard, kpis,
                   df_processado, run_log>>

\* process_nfe_files has returned df to the button handler: a warning for an
\* empty table, else the table is stored
HandleResult ==
    /\ pc = "done"
    /\ df_processado' = StoreResult(df_processado, df)
    /\ source_docs' = (IF FrameEmpty(df) THEN source_docs ELSE xml_contents)
    /\ run_log' = Append(run_log, [message |-> RunMessage(df), returned |-> TRUE,
                                   df_result |-> df])
    /\ pc' = "idle"
    /\ NoCall
    /\ UNCHANGED <<uploaded_files, selected_fields, position, raising, call,
                   first_df, df_dashboard, kpis>>

\* the call raises instead of returning: st.error, nothing else
HandleError ==
    /\ pc \in {"start", "extract", "parse", "items", "extend"}
    /\ run_log' = Append(run_log, [message |-> "error", returned |-> FALSE,
                                   df_result |-> EmptyFrame])
    /\ pc' = "idle"
    /\ NoCall
    /\ UNCHANGED <<uploaded_files, selected_fields, position, raising, call,
                   first_df, source_docs, df_dashboard, kpis, df_processado>>

NextApp ==
    \/ Press
    \/ Next
    \/ HandleResult
    \/ HandleError

SpecApp == InitApp /\ [][NextApp]_vars

\* the button has been pressed on blobs holding some of KpiDocs
InitKpi ==
    /\ uploaded_files \in {[k \in 1..Len(docs) |->
                               Blob(NameAXml, TRUE, XmlContent(docs[k]))] :
                            docs \in SeqsUpTo(KpiDocs, MaxDocs)}
    /\ selected_fields \in KpiSelections
    /\ pc = "start"
    /\ df_processado = EmptyFrame
    /\ run_log = <<>>
    /\ fi = 1
    /\ xml_contents = <<>>
    /\ xi = 1
    /\ header_data = <<>>
    /\ items = <<>>
    /\ ii = 1
    /\ results = <<>>
    /\ records = <<>>
    /\ all_records = <<>>
    /\ df = EmptyFrame
    /\ position = [k \in 1..Len(uploaded_files) |-> 0]
    /\ raising = {}
    /\ call = 1
    /\ first_df = EmptyFrame
    /\ source_docs = <<>>
    /\ df_dashboard = EmptyFrame
    /\ kpis = NoKpis

KpiFrame == <<uploaded_files, selected_fields, fi, xml_contents, xi, ParseLocals,
              all_records, df, position, raising, call, first_df, source_docs,
              df_processado, run_log>>

\* the dashboard tab: nothing to show, or a copy of the stored table
OpenDashboard ==
    /\ pc = "idle"
    /\ IF FrameEmpty(df_processado)
       THEN pc' = "info" /\ UNCHANGED df_dashboard
       ELSE pc' = "indicators" /\ df_dashboard' = df_processado
    /\ UNCHANGED <<kpis, KpiFrame>>

\* the indicators, with no filter chosen
ShowKpis ==
    /\ pc = "indicators"
    /\ ~FrameEmpty(df_dashboard)
    /\ kpis' = calculate_kpis(df_dashboard)
    /\ pc' = "shown"
    /\ UNCHANGED <<df_dashboard, KpiFrame>>

NextKpi ==
    \/ Next
    \/ HandleResult
    \/ OpenDashboard
    \/ ShowKpis

SpecKpi == InitKpi /\ [][NextKpi]_vars

\* the sets of fields whose evaluation is made to raise
FaultSamples ==
    {{"Valor Total da NF"}, {"Descrição do Produto"}, {"Valor ICMS", "CST ICMS"},
     {"Chave de Acesso", "Valor IPI"}, {"Quantidade Comercial", "Série"}}

\* one blob, and a set of fields whose try block raises during the run
InitFaults ==
    /\ uploaded_files \in {<<b>> : b \in BlobSamples}
    /\ selected_fields \in SelectionSamples
    /\ pc = "start"
    /\ fi = 1
    /\ xml_contents = <<>>
    /\ xi = 1
    /\ header_data = <<>>
    /\ items = <<>>
    /\ ii = 1
    /\ results = <<>>
    /\ records = <<>>
    /\ all_records = <<>>
    /\ df = EmptyFrame
    /\ position = <<0>>
    /\ raising \in FaultSamples
    /\ call = 1
    /\ first_df = EmptyFrame
    /\ source_docs = <<>>
    /\ df_dashboard = EmptyFrame
    /\ kpis = NoKpis
    /\ df_processado = EmptyFrame
    /\ run_log = <<>>

SpecFaults == InitFaults /\ [][Next]_vars

----------------------------------------------------------------------------
(* Vocabulary of the properties *)

\* the true-valued keys of the selection, in insertion order
TrueKeys(sel) ==
    LET on(p) == p[2]
        kept == SelectSeq(sel, on)
    IN  [k \in 1..Len(kept) |-> kept[k][1]]

TrueKeySet(sel) == {f \in SelKeys(sel) : SelGet(sel, f)}

\* every key of the selection is a name of the catalog
CatalogSelection(sel) == SelKeys(sel) \subseteq CatalogNames

\* parse_nfe_xml has just returned `records` for the buffer xml_contents[xi]
Returned == pc = "extend"

CurBuf == xml_contents[xi]

\* the det nodes of the document just parsed, in document order
CurDets == FindItems(CurBuf.root)

\* where each row of the table comes from: its document and, unless it is a
\* header-only row, its det node
OriginsOf(buf, sel) ==
    IF ~buf.wf THEN <<>>
    ELSE LET dets == FindItems(buf.root)
         IN  IF dets = <<>>
             THEN (IF HeaderKeys(sel) # {}
                   THEN <<[root |-> buf.root, item |-> <<>>]>> ELSE <<>>)
             ELSE [k \in 1..Len(dets) |-> [root |-> buf.root, item |-> <<dets[k]>>]]

RowOrigins(bufs, sel) == Flatten([k \in 1..Len(bufs) |-> OriginsOf(bufs[k], sel)])

\* the locator of a DECIMAL field
NumericLocator(col) ==
    IF col = "Base Cálculo ICMS" THEN <<D(Q("imposto")), C(Q("ICMS")), D(Q("vBC"))>>
    ELSE IF col = "Alíquota ICMS" THEN <<D(Q("imposto")), C(Q("ICMS")), D(Q("pICMS"))>>
    ELSE IF col = "Valor ICMS" THEN <<D(Q("imposto")), C(Q("ICMS")), D(Q("vICMS"))>>
    ELSE IF col = "Valor IPI" THEN <<D(Q("imposto")), C(Q("IPI")), D(Q("vIPI"))>>
    ELSE IF col = "Valor PIS" THEN <<D(Q("imposto")), C(Q("PIS")), D(Q("vPIS"))>>
    ELSE IF col = "Valor COFINS" THEN <<D(Q("imposto")), C(Q("COFINS")), D(Q("vCOFINS"))>>
    ELSE XPathGet(col)

\* the node the locator of col matches for the row of origin o: <<>> for none
Matched(o, col) ==
    IF col \in ItemFieldSet
    THEN (IF o.item = <<>> THEN <<>> ELSE Find(o.item[1], NumericLocator(col)))
    ELSE Find(o.root, NumericLocator(col))

\* the locator matched nothing, or text that is no number
NoNumber(o, col) ==
    Matched(o, col) = <<>> \/ ~ParseFloat(Matched(o, col)[1].text).ok

NumericColumns(table) ==
    {table.columns[k] : k \in 1..Len(table.columns)} \cap numeric_fields

Malformeds(bufs) == {k \in 1..Len(bufs) : ~bufs[k].wf}

Without(bufs, k) == SubSeq(bufs, 1, k - 1) \o SubSeq(bufs, k + 1, Len(bufs))

Occurrences(rows, row) == Cardinality({k \in 1..Len(rows) : rows[k] = row})

\* same columns and same multiset of rows
SameTable(a, b) ==
    /\ a.columns = b.columns
    /\ Len(a.rows) = Len(b.rows)
    /\ \A k \in 1..Len(a.rows) : Occurrences(a.rows, a.rows[k]) = Occurrences(b.rows, a.rows[k])

\* the blob is a readable, valid archive named *.zip with exactly two readable
\* .xml members
TwoDocZip(file) ==
    /\ file.readable
    /\ EndsWith(file.name, DotZip)
    /\ file.content.fmt = "zip"
    /\ Len(file.content.members) = 2
    /\ \A k \in 1..2 : /\ file.content.members[k].ok
                       /\ EndsWith(Lower(file.content.members[k].filename), DotXml)

\* the members of such an archive as standalone blobs
Standalone(file) ==
    [k \in 1..Len(file.content.members) |->
        Blob(file.content.members[k].filename, TRUE,
             XmlContent(file.content.members[k].buf))]

RECURSIVE TotalDets(_)
TotalDets(bufs) ==
    IF bufs = <<>> THEN 0
    ELSE (IF Head(bufs).wf THEN Len(FindItems(Head(bufs).root)) ELSE 0)
         + TotalDets(Tail(bufs))

\* no catalog field has a true value in the selection
NothingSelected(sel) == HeaderKeys(sel) = {} /\ ItemKeys(sel) = {}

\* the cases in which the table is said to be empty
EmptyCase ==
    \/ uploaded_files = <<>>
    \/ xml_contents = <<>>
    \/ \A k \in 1..Len(xml_contents) : ~xml_contents[k].wf
    \/ NothingSelected(selected_fields)

----------------------------------------------------------------------------
(* Properties *)

\* C1: for a well-formed document with N >= 1 det nodes and an ITEM field
\* selected, parse_nfe_xml returns N records, the k-th built from the k-th det
\* node, all with the same values for the selected HEADER fields; tax groups
\* missing from a det node do not change N.
C1_RowPerItem ==
    (Returned /\ CurBuf.wf /\ CurDets # <<>> /\ ItemKeys(selected_fields) # {}) =>
        /\ Len(records) = Len(CurDets)
        /\ \A k \in 1..Len(records) :
            /\ \A f \in HeaderKeys(selected_fields) :
                f \in DOMAIN records[k] /\ records[k][f] = records[1][f]
            /\ \A f \in ItemKeys(selected_fields) :
                f \in DOMAIN records[k] /\ records[k][f] = ItemValue(CurDets[k], f)

C1_Witness ==
    /\ Returned /\ CurBuf.wf /\ Len(CurDets) = 2
    /\ ItemKeys(selected_fields) # {} /\ HeaderKeys(selected_fields) # {}
    /\ \E k \in 1..2 : Find(CurDets[k], <<C(Q("imposto"))>>) = <<>>
    /\ Len(records) = 2
    /\ records[1] # records[2]

\* C2 as claimed: without ITEM fields selected, a well-formed document yields
\* exactly one record (the Document Record) if a HEADER field is selected,
\* whatever its number of det nodes, and no record if the Document Record has
\* no entries.
C2_OneRecordWithoutItemFields ==
    (Returned /\ CurBuf.wf /\ ItemKeys(selected_fields) = {}) =>
        /\ HeaderKeys(selected_fields) # {} => records = <<header_data>>
        /\ DOMAIN header_data = {} => records = <<>>

\* C2 amended: without ITEM fields selected, a well-formed document yields one
\* copy of the Document Record per det node; without det nodes it yields the
\* Document Record once, or nothing if the Document Record has no entries.
C2_RecordPerItemWithoutItemFields ==
    (Returned /\ CurBuf.wf /\ ItemKeys(selected_fields) = {}) =>
        /\ Len(records) = IF CurDets # <<>> THEN Len(CurDets)
                          ELSE IF HeaderKeys(selected_fields) # {} THEN 1 ELSE 0
        /\ \A k \in 1..Len(records) :
            /\ DOMAIN records[k] = HeaderKeys(selected_fields)
            /\ records[k] = header_data

C2_Witness ==
    /\ Returned /\ CurBuf.wf /\ ItemKeys(selected_fields) = {}
    /\ HeaderKeys(selected_fields) # {}
    /\ Len(CurDets) = 2
    /\ Len(records) = 2

\* C3 as claimed: a non-empty table's columns are exactly the true-valued
\* selection keys in insertion order, and every row has each of them, a column
\* no record contains being backfilled with its default.
C3_ColumnsAreSelection ==
    (/\ pc = "done"
     /\ df.rows # <<>>
     /\ TrueKeys(selected_fields) # <<>>
     /\ CatalogSelection(selected_fields)) =>
        /\ df.columns = TrueKeys(selected_fields)
        /\ \A r \in 1..Len(df.rows) : DOMAIN df.rows[r] = TrueKeySet(selected_fields)

\* C4 as claimed: every record parse_nfe_xml returns has the full set of
\* true-valued selected fields as its keys, the fallback record of a document
\* without det nodes included.
C4_SameKeySet ==
    (Returned /\ CatalogSelection(selected_fields)) =>
        \A k \in 1..Len(records) : DOMAIN records[k] = TrueKeySet(selected_fields)

\* C4 amended: the records of a document with det nodes all have the selected
\* catalog fields, HEADER and ITEM, as their keys; the fallback record of a
\* document without det nodes has the selected catalog HEADER fields only.
C4_KeySetByOrigin ==
    Returned =>
        \A k \in 1..Len(records) :
            DOMAIN records[k] =
                IF CurDets # <<>>
                THEN HeaderKeys(selected_fields) \cup ItemKeys(selected_fields)
                ELSE HeaderKeys(selected_fields)

C4_Witness ==
    /\ Returned /\ CurBuf.wf
    /\ ItemKeys(selected_fields) # {}
    /\ xi > 1
    /\ Len(all_records) > 0
    /\ DOMAIN all_records[1] = TrueKeySet(selected_fields)
    /\ \E f \in DOMAIN all_records[1] : all_records[1][f] = PyNone
    /\ CurDets = <<>>
    /\ Len(records) = 1
    /\ DOMAIN records[1] # TrueKeySet(selected_fields)

\* C5: with exactly one malformed buffer in the batch, the table is the one
\* the other buffers alone produce.
C5_FaultIsolation ==
    (pc = "done" /\ Cardinality(Malformeds(xml_contents)) = 1) =>
        df = ProcessBuffers(
                Without(xml_contents, CHOOSE k \in Malformeds(xml_contents) : TRUE),
                selected_fields)

C5_Witness ==
    /\ pc = "done"
    /\ Cardinality(Malformeds(xml_contents)) = 1
    /\ Len(xml_contents) >= 2
    /\ ~xml_contents[1].wf
    /\ Len(df.rows) >= 2

\* C6: every cell of a DECIMAL column of the returned table is a number, and
\* it is 0.0 where the locator matched no node or non-numeric text.
C6_NumericDefault ==
    pc = "done" =>
        LET org == RowOrigins(xml_contents, selected_fields)
        IN  /\ df.rows # <<>> => Len(org) = Len(df.rows)
            /\ \A r \in 1..Len(df.rows) : \A c \in NumericColumns(df) :
                /\ df.rows[r][c].t = "float"
                /\ NoNumber(org[r], c) => df.rows[r][c] = PyFloat(0)

C6_Witness ==
    /\ pc = "done"
    /\ LET org == RowOrigins(xml_contents, selected_fields)
       IN  /\ \E r1, r2 \in 1..Len(df.rows) : \E c \in NumericColumns(df) :
                /\ org[r1].root # org[r2].root
                /\ Matched(org[r1], c) = <<>>
                /\ df.rows[r1][c] = PyFloat(0)
                /\ df.rows[r2][c].v # 0
           /\ \E r \in 1..Len(df.rows) : \E c \in NumericColumns(df) :
                /\ Matched(org[r], c) # <<>>
                /\ NoNumber(org[r], c)

\* C7: a well-formed document without det nodes yields exactly one record,
\* holding the selected HEADER fields only, when ITEM fields are selected and
\* some selected HEADER field has a value in the document.
C7_ZeroItemFallback ==
    (/\ Returned /\ CurBuf.wf /\ CurDets = <<>>
     /\ ItemKeys(selected_fields) # {}
     /\ \E f \in HeaderKeys(selected_fields) :
            HeaderValue(CurBuf.root, f, detect_nfe_version(CurBuf.root)) # PyNone) =>
        /\ Len(records) = 1
        /\ DOMAIN records[1] = HeaderKeys(selected_fields)
        /\ \A f \in HeaderKeys(selected_fields) :
            records[1][f] = HeaderValue(CurBuf.root, f, detect_nfe_version(CurBuf.root))

C7_Witness ==
    /\ Returned /\ CurBuf.wf /\ CurDets = <<>>
    /\ ItemKeys(selected_fields) # {}
    /\ \E f \in HeaderKeys(selected_fields) : Truthy(header_data[f])
    /\ Len(records) = 1

\* C8 as claimed: one archive with two XML members gives the same table
\* (columns and multiset of rows) as the two documents given as standalone
\* .xml blobs (stated for the selections that select a catalog field).
C8_ArchiveTransparency ==
    (/\ pc = "done" /\ Len(uploaded_files) = 1 /\ TwoDocZip(uploaded_files[1])
     /\ ~NothingSelected(selected_fields)) =>
        SameTable(df, process_nfe_files(Standalone(uploaded_files[1]), selected_fields))

\* C8 where it does hold: the two members bear different names.
C8_DistinctNames ==
    (/\ pc = "done" /\ Len(uploaded_files) = 1 /\ TwoDocZip(uploaded_files[1])
     /\ uploaded_files[1].content.members[1].filename
            # uploaded_files[1].content.members[2].filename) =>
        SameTable(df, process_nfe_files(Standalone(uploaded_files[1]), selected_fields))

\* C9: no exception leaves process_nfe_files.
C9_NeverRaises == pc # "raised"

C9_Witness ==
    /\ pc = "done"
    /\ \E k \in 1..Len(uploaded_files) : ExtractBody(uploaded_files[k]).exc
    /\ \E k \in 1..Len(xml_contents) : ~xml_contents[k].wf

\* C10 as claimed: the table has no rows and no columns when the blob list is
\* empty, no buffer results, every document is malformed or no catalog field is
\* selected.
C10_EmptyTable == (pc = "done" /\ EmptyCase) => df = EmptyFrame

\* C10 amended: in those cases the table has no columns, and as many
\* (column-less) rows as the well-formed documents have det nodes: none unless
\* no catalog field is selected.
C10_NoColumns ==
    (pc = "done" /\ EmptyCase) =>
        /\ df.columns = <<>>
        /\ Len(df.rows) = TotalDets(xml_contents)
        /\ \A r \in 1..Len(df.rows) : DOMAIN df.rows[r] = {}
        /\ ~NothingSelected(selected_fields) => df = EmptyFrame

C10_Witness ==
    /\ pc = "done"
    /\ NothingSelected(selected_fields)
    /\ Len(selected_fields) > 0
    /\ df.columns = <<>>
    /\ Len(df.rows) = 2

\* the batch with every blob name in lower case
LowerNames(files) == [k \in 1..Len(files) |-> [files[k] EXCEPT !.name = Lower(@)]]

\* extract_xml_from_files has run over every blob
Extracted == pc = "extract" /\ fi > Len(uploaded_files)

\* C11 as claimed: both suffix tests ignore letter case, so the buffers a batch
\* yields are those it yields with every blob name written in lower case
\* ('Z.ZIP' is unwrapped like 'z.zip', 'b.XML' is taken like 'b.xml').
C11_CaseInsensitiveSuffixes ==
    Extracted => xml_contents = extract_xml_from_files(LowerNames(uploaded_files))

\* C11 where it does hold: the names that do not end in '.zip' in another
\* letter case.
C11_XmlSuffixAnyCase ==
    (/\ Extracted
     /\ \A k \in 1..Len(uploaded_files) :
            EndsWith(Lower(uploaded_files[k].name), DotZip)
                => EndsWith(uploaded_files[k].name, DotZip)) =>
        xml_contents = extract_xml_from_files(LowerNames(uploaded_files))

\* the blob has a name with neither suffix, or is named *.zip without being a
\* valid archive
BadBlob(file) ==
    \/ /\ ~EndsWith(Lower(file.name), DotXml)
       /\ ~EndsWith(Lower(file.name), DotZip)
    \/ /\ EndsWith(Lower(file.name), DotZip)
       /\ file.readable
       /\ file.content.fmt # "zip"

BadBlobs(files) == {k \in 1..Len(files) : BadBlob(files[k])}

\* C12: a blob named neither *.xml nor *.zip, or named *.zip without being a
\* valid archive, raises nothing and adds no buffer: the buffers of the batch
\* are those of the batch without it.
C12_BadBlobSkipped ==
    \A k \in BadBlobs(uploaded_files) :
        /\ pc # "raised"
        /\ (pc = "extract" /\ fi = k + 1) =>
                xml_contents = extract_xml_from_files(SubSeq(uploaded_files, 1, k - 1))
        /\ Extracted =>
                xml_contents = extract_xml_from_files(Without(uploaded_files, k))

C12_Witness ==
    /\ Extracted
    /\ Len(uploaded_files) = 2
    /\ BadBlobs(uploaded_files) = {1}
    /\ uploaded_files[1].content.fmt = "junk"
    /\ Len(xml_contents) = 2

\* C12, a batch of both kinds of bad blob yields no buffer
C12_WitnessBothKinds ==
    /\ Extracted
    /\ Len(uploaded_files) = 2
    /\ BadBlobs(uploaded_files) = {1, 2}
    /\ uploaded_files[1].content.fmt = "junk"
    /\ EndsWith(uploaded_files[2].name, <<".", "t", "x", "t">>)
    /\ xml_contents = <<>>

\* the blob is opened as an archive: readable, named *.zip, valid
IsArchive(file) ==
    file.readable /\ EndsWith(file.name, DotZip) /\ file.content.fmt = "zip"

XmlMember(m) == EndsWith(Lower(m.filename), DotXml)

\* the archive has a .xml member whose read fails
HasFailingMember(file) ==
    \E k \in 1..Len(file.content.members) :
        XmlMember(file.content.members[k]) /\ ~file.content.members[k].ok

\* no two members of the archive bear the same name
DistinctMemberNames(file) ==
    \A j, k \in 1..Len(file.content.members) :
        file.content.members[j].filename = file.content.members[k].filename => j = k

\* the buffers of the .xml members that can be read, in member order
ReadableMembers(file) ==
    Flatten([k \in 1..Len(file.content.members) |->
                IF XmlMember(file.content.members[k]) /\ file.content.members[k].ok
                THEN <<file.content.members[k].buf>> ELSE <<>>])

\* what each blob is said to contribute: an archive its readable .xml members
ExpectedBufs(file) ==
    IF IsArchive(file) THEN ReadableMembers(file) ELSE ExtractIteration(file).bufs

ExpectedContents(files) == Flatten([k \in 1..Len(files) |-> ExpectedBufs(files[k])])

\* C13 as claimed: when the read of one .xml member of an archive fails, every
\* other .xml member of the archive still contributes its buffer, and so does
\* every blob after the archive.
C13_MemberFailureIsolated ==
    (/\ Extracted
     /\ \E k \in 1..Len(uploaded_files) :
            IsArchive(uploaded_files[k]) /\ HasFailingMember(uploaded_files[k])) =>
        xml_contents = ExpectedContents(uploaded_files)

\* C13 where it does hold: the members of each archive bear different names.
C13_DistinctNames ==
    (/\ Extracted
     /\ \E k \in 1..Len(uploaded_files) :
            IsArchive(uploaded_files[k]) /\ HasFailingMember(uploaded_files[k])
     /\ \A k \in 1..Len(uploaded_files) :
            IsArchive(uploaded_files[k]) => DistinctMemberNames(uploaded_files[k])) =>
        xml_contents = ExpectedContents(uploaded_files)

\* every member of every archive of the batch can be read
AllMembersReadable(files) ==
    \A k \in 1..Len(files) : IsArchive(files[k]) => ~HasFailingMember(files[k])

\* the blob is a readable standalone document named *.xml in any letter case
StandaloneXml(file) ==
    file.readable /\ ~EndsWith(file.name, DotZip) /\ EndsWith(Lower(file.name), DotXml)

\* C14 as claimed (stated for archives whose members can all be read): the
\* buffers are, blob after blob in input order, the bytes of a standalone .xml
\* blob and the .xml members of an archive in member order, each once.
C14_BufferOrder ==
    (Extracted /\ AllMembersReadable(uploaded_files)) =>
        xml_contents = ExpectedContents(uploaded_files)

\* C14 where it does hold: standalone blobs, and archives whose members bear
\* different names.
C14_DistinctNames ==
    (/\ Extracted
     /\ \A k \in 1..Len(uploaded_files) :
            IsArchive(uploaded_files[k]) => DistinctMemberNames(uploaded_files[k])) =>
        /\ xml_contents = ExpectedContents(uploaded_files)
        /\ \A k \in 1..Len(uploaded_files) :
            StandaloneXml(uploaded_files[k]) =>
                ExpectedBufs(uploaded_files[k]) = <<uploaded_files[k].content.buf>>

\* the DECIMAL fields by the branch of parse_nfe_xml that reads them
HeaderTotals == numeric_fields \ ItemFieldSet

IcmsAmounts == {"Base Cálculo ICMS", "Alíquota ICMS", "Valor ICMS"}

\* the origin of the k-th record of the document just parsed
CurOrigin(k) ==
    [root |-> CurBuf.root,
     item |-> IF CurDets = <<>> THEN <<>> ELSE <<CurDets[k]>>]

\* the selected DECIMAL fields the k-th record has a key for
DecimalKeys(k) == numeric_fields \cap DOMAIN records[k]

\* the locator matched no node, or a node without text
NoText(o, col) == Matched(o, col) = <<>> \/ Matched(o, col)[1].text = <<>>

\* C15 as claimed: in the records parse_nfe_xml returns, a selected DECIMAL
\* field whose locator matches nothing or non-numeric text is 0.0, header
\* totals and ICMS amounts included.
C15_ParseLevelZero ==
    (Returned /\ CurBuf.wf) =>
        \A k \in 1..Len(records) : \A c \in DecimalKeys(k) :
            NoNumber(CurOrigin(k), c) => records[k][c] = PyFloat(0)

\* C15 amended: in those records a product, IPI/PIS/COFINS or DIFAL amount
\* without a number is 0.0; an ICMS amount is 0.0 when nothing or an empty node
\* is matched and the stripped raw text when the text is no number; a header
\* total is the stripped text as found, numeric or not, and None when nothing
\* or an empty node is matched.
C15_ParseLevelDecimals ==
    (Returned /\ CurBuf.wf) =>
        /\ CurDets # <<>> => Len(records) = Len(CurDets)
        /\ \A k \in 1..Len(records) :
            /\ DecimalKeys(k) =
                  numeric_fields \cap
                    (HeaderKeys(selected_fields) \cup
                     (IF CurDets # <<>> THEN ItemKeys(selected_fields) ELSE {}))
            /\ \A c \in DecimalKeys(k) :
                LET o == CurOrigin(k) IN
                IF c \in HeaderTotals THEN
                    records[k][c] = IF NoText(o, c) THEN PyNone
                                    ELSE PyStr(Strip(Matched(o, c)[1].text))
                ELSE IF c \in IcmsAmounts THEN
                    NoNumber(o, c) =>
                        records[k][c] = IF NoText(o, c) THEN PyFloat(0)
                                        ELSE PyStr(Strip(Matched(o, c)[1].text))
                ELSE NoNumber(o, c) => records[k][c] = PyFloat(0)

C15_Witness ==
    /\ Returned /\ CurBuf.wf /\ Len(records) = 2
    /\ \E k \in 1..2 :
        /\ "Valor ICMS" \in DecimalKeys(k)
        /\ "Quantidade Comercial" \in DecimalKeys(k)
        /\ records[k]["Valor ICMS"] = PyStr(<<"a", "b", "c">>)
        /\ NoNumber(CurOrigin(k), "Quantidade Comercial")
        /\ records[k]["Quantidade Comercial"] = PyFloat(0)

\* C15, a header total kept as text and an amount defaulted in one record
C15_WitnessHeaderTotal ==
    /\ Returned /\ CurBuf.wf
    /\ \E k \in 1..Len(records) : \E c \in DecimalKeys(k) \cap HeaderTotals :
        /\ records[k][c].t = "str"
        /\ NoNumber(CurOrigin(k), c)

\* the selected TEXT and IDENTIFIER fields the k-th record has a key for
TextKeys(k) == (DOMAIN records[k]) \ numeric_fields

IcmsTextTag(f) ==
    IF f = "Origem da Mercadoria" THEN "orig"
    ELSE IF f = "CST ICMS" THEN "CST" ELSE "modBC"

\* the text of the first node a locator matches: None without a node or text
RawText(element, xpath) ==
    LET found == Find(element, xpath)
    IN  IF found # <<>> /\ found[1].text # <<>> THEN PyStr(found[1].text) ELSE PyNone

\* what the document holds for field f of origin o, before any stripping
TextRaw(o, f) ==
    IF f = "Chave de Acesso" \/ f = "Versão" THEN
        LET found == Find(o.root, <<D(Q("infNFe"))>>)
        IN  IF found = <<>> THEN PyNone
            ELSE GetAttr(found[1], IF f = "Versão" THEN "versao" ELSE "Id")
    ELSE IF f = "Número do Item" THEN GetAttr(o.item[1], "nItem")
    ELSE IF f \in {"Origem da Mercadoria", "CST ICMS", "Modalidade BC ICMS"} THEN
        RawText(o.item[1], <<D(Q("imposto")), C(Q("ICMS")), D(Q(IcmsTextTag(f)))>>)
    ELSE IF f \in ItemFieldSet THEN RawText(o.item[1], XPathGet(f))
    ELSE RawText(o.root, XPathGet(f))

\* absent or empty
EmptyRaw(r) == r = PyNone \/ r.s = <<>>

\* present with white space only
BlankRaw(r) == r # PyNone /\ r.s # <<>> /\ Strip(r.s) = <<>>

MissingRaw(r) == EmptyRaw(r) \/ BlankRaw(r)

TaxIdFields == {"CNPJ do Emitente", "CNPJ do Destinatário"}

CpfOf(f) == IF f = "CNPJ do Emitente" THEN "CPF do Emitente" ELSE "CPF do Destinatário"

\* the field is missing from the document: for a tax ID, CNPJ and CPF both
MissingField(o, f) ==
    /\ MissingRaw(TextRaw(o, f))
    /\ f \in TaxIdFields => MissingRaw(TextRaw(o, CpfOf(f)))

\* C16 as claimed: a selected TEXT or IDENTIFIER field that is absent, empty or
\* blank in the document holds None in every record, 'Versão', 'Chave de
\* Acesso' and 'Número do Item' included.
C16_MissingTextIsNone ==
    (Returned /\ CurBuf.wf) =>
        \A k \in 1..Len(records) : \A f \in TextKeys(k) :
            MissingField(CurOrigin(k), f) => records[k][f] = PyNone

\* C16 amended: an absent or empty field holds None, except 'Versão', which
\* holds 'desconhecida'; a blank (white-space only) field holds the empty
\* string, except 'Chave de Acesso', which holds None, 'Número do Item', which
\* holds the blank text itself, and a tax ID, which falls back to the CPF.
C16_MissingText ==
    (Returned /\ CurBuf.wf) =>
        \A k \in 1..Len(records) : \A f \in TextKeys(k) :
            LET r == TextRaw(CurOrigin(k), f)
                v == records[k][f]
            IN  IF f = "Versão" THEN
                    /\ EmptyRaw(r) => v = PyStr(Desconhecida)
                    /\ BlankRaw(r) => v = PyStr(<<>>)
                ELSE IF f = "Chave de Acesso" THEN MissingRaw(r) => v = PyNone
                ELSE IF f = "Número do Item" THEN
                    /\ EmptyRaw(r) => v = PyNone
                    /\ BlankRaw(r) => v = r
                ELSE IF f \in TaxIdFields THEN
                    LET p == TextRaw(CurOrigin(k), CpfOf(f))
                    IN  MissingRaw(r) => /\ EmptyRaw(p) => v = PyNone
                                         /\ BlankRaw(p) => v = PyStr(<<>>)
                ELSE /\ EmptyRaw(r) => v = PyNone
                     /\ BlankRaw(r) => v = PyStr(<<>>)

C16_Witness ==
    /\ Returned /\ CurBuf.wf /\ CurDets # <<>>
    /\ \E k \in 1..Len(records) :
        /\ {"Versão", "Chave de Acesso", "CNPJ do Destinatário"} \subseteq TextKeys(k)
        /\ EmptyRaw(TextRaw(CurOrigin(k), "Versão"))
        /\ records[k]["Versão"] = PyStr(Desconhecida)
        /\ records[k]["Chave de Acesso"] = PyNone
        /\ MissingField(CurOrigin(k), "CNPJ do Destinatário")
        /\ records[k]["CNPJ do Destinatário"] = PyNone

\* C16, a blank element gives the empty string next to an empty one giving None
C16_WitnessBlank ==
    /\ Returned /\ CurBuf.wf
    /\ \E k \in 1..Len(records) : \E f, g \in TextKeys(k) :
        /\ BlankRaw(TextRaw(CurOrigin(k), f))
        /\ records[k][f] = PyStr(<<>>)
        /\ EmptyRaw(TextRaw(CurOrigin(k), g))
        /\ records[k][g] = PyNone

\* the record sequences parse_nfe_xml returns for the buffers, one after another
ParsedRecords(bufs, sel) ==
    Flatten([k \in 1..Len(bufs) |-> parse_nfe_xml(bufs[k], sel)])

RECURSIVE SumRecordCounts(_, _)
SumRecordCounts(bufs, sel) ==
    IF bufs = <<>> THEN 0
    ELSE Len(parse_nfe_xml(Head(bufs), sel)) + SumRecordCounts(Tail(bufs), sel)

\* the row a record becomes: its values under the table's columns, DECIMAL
\* columns coerced
RowOf(rec, table) ==
    [c \in {table.columns[k] : k \in 1..Len(table.columns)} |->
        ConvertCell(c, FrameCell(rec, c))]

\* C17: the rows of the table are the records parse_nfe_xml returns for the
\* buffers, concatenated in buffer order: as many rows as records, the r-th row
\* holding the r-th record.
C17_RowsAreConcatenation ==
    pc = "done" =>
        LET recs == ParsedRecords(xml_contents, selected_fields)
        IN  /\ Len(df.rows) = SumRecordCounts(xml_contents, selected_fields)
            /\ Len(df.rows) = Len(recs)
            /\ \A r \in 1..Len(df.rows) : df.rows[r] = RowOf(recs[r], df)

C17_Witness ==
    /\ pc = "done"
    /\ Len(xml_contents) = 3
    /\ parse_nfe_xml(xml_contents[2], selected_fields) = <<>>
    /\ Len(parse_nfe_xml(xml_contents[1], selected_fields)) = 2
    /\ xml_contents[1] # xml_contents[3]
    /\ Len(df.rows) = 4
    /\ df.rows[1] # df.rows[2]
    /\ df.rows[1] # df.rows[3]
    /\ df.rows[3] # df.rows[4]

C18_WitnessFallback ==
    /\ Returned /\ CurBuf.wf /\ Len(records) >= 1
    /\ TaxIdFields \subseteq DOMAIN records[1]
    /\ Find(CurBuf.root, XPathGet("CNPJ do Emitente")) # <<>>
    /\ records[1]["CNPJ do Emitente"] = PyStr(<<"2", "2">>)
    /\ records[1]["CNPJ do Destinatário"] = PyNone

\* the position of a key in the selection
SelIndex(sel, name) == CHOOSE k \in 1..Len(sel) : sel[k][1] = name

\* C19: every column of the table is a key of the selection with a true value,
\* no column appears twice, and the columns follow the selection's insertion
\* order.
C19_ColumnsFollowSelection ==
    pc = "done" =>
        /\ \A k \in 1..Len(df.columns) : IsSelected(selected_fields, df.columns[k])
        /\ \A j, k \in 1..Len(df.columns) :
            j < k => SelIndex(selected_fields, df.columns[j])
                        < SelIndex(selected_fields, df.columns[k])
        /\ \A r \in 1..Len(df.rows) :
            DOMAIN df.rows[r] = {df.columns[k] : k \in 1..Len(df.columns)}

C19_Witness ==
    /\ pc = "done"
    /\ df.rows # <<>>
    /\ \E k \in 1..Len(selected_fields) : ~selected_fields[k][2]
    /\ \E k \in 1..Len(selected_fields) : selected_fields[k][1] \notin CatalogNames
    /\ df.columns = <<"Base Cálculo ICMS", "Série">>
    /\ DOMAIN all_records[1] = {"Série"}

\* the values tried for the versao attribute: none, or one of these texts
VersaoVariants == {<<>>, << <<"3", ".", "1", "0">> >>, << <<"4", ".", "0", "0">> >>}

IsNotVersao(a) == a[1] # "versao"

\* the tree with the versao attribute of every infNFe node removed (va = <<>>)
\* or set to va[1]
RECURSIVE SetVersao(_, _)
SetVersao(e, va) ==
    [tag |-> e.tag,
     attrs |-> IF e.tag = Q("infNFe")
               THEN SelectSeq(e.attrs, IsNotVersao)
                    \o (IF va = <<>> THEN <<>> ELSE << <<"versao", va[1]>> >>)
               ELSE e.attrs,
     text |-> e.text,
     children |-> [k \in 1..Len(e.children) |-> SetVersao(e.children[k], va)]]

\* the records agree on their keys and on every value but that of 'Versão'
SameButVersao(a, b) ==
    /\ Len(a) = Len(b)
    /\ \A k \in 1..Len(a) :
        /\ DOMAIN a[k] = DOMAIN b[k]
        /\ \A f \in (DOMAIN a[k]) \ {"Versão"} : a[k][f] = b[k][f]

\* C20: the records of a document and those of the same document with its
\* versao attribute removed or changed have the same number, the same keys and
\* the same values in every field but 'Versão'.
C20_VersionNonInterference ==
    (Returned /\ CurBuf.wf) =>
        \A va \in VersaoVariants :
            SameButVersao(records,
                          parse_nfe_xml(WellFormed(SetVersao(CurBuf.root, va)),
                                        selected_fields))

C20_Witness ==
    /\ Returned /\ CurBuf.wf /\ Len(records) = 2
    /\ "Versão" \in DOMAIN records[1]
    /\ records[1]["Versão"] = PyStr(<<"4", ".", "0", "0">>)
    /\ \E f \in DOMAIN records[1] : f # "Versão" /\ Truthy(records[1][f])
    /\ parse_nfe_xml(WellFormed(SetVersao(CurBuf.root, <<>>)), selected_fields)[1]["Versão"]
            = PyStr(Desconhecida)

\* the selection without the keys that are no field of the catalog
KnownOnly(sel) ==
    LET known(p) == p[1] \in CatalogNames IN SelectSeq(sel, known)

\* C21: a selection key that is no field of the catalog changes nothing: no
\* exception, and the table is the one the selection without that key gives.
C21_UnknownKeyIgnored ==
    /\ pc # "raised"
    /\ pc = "done" =>
        df = process_nfe_files(uploaded_files, KnownOnly(selected_fields))

C21_Witness ==
    /\ pc = "done"
    /\ \E k \in 1..Len(selected_fields) :
        selected_fields[k][2] /\ selected_fields[k][1] \notin CatalogNames
    /\ KnownOnly(selected_fields) # selected_fields
    /\ Len(df.columns) = 2
    /\ Len(df.rows) >= 2

IcmsTextFields == {"Origem da Mercadoria", "CST ICMS", "Modalidade BC ICMS"}

IcmsFields == IcmsTextFields \cup IcmsAmounts

\* the leaf tag of an ICMS field
IcmsTag(f) ==
    IF f \in IcmsTextFields THEN IcmsTextTag(f)
    ELSE IF f = "Base Cálculo ICMS" THEN "vBC"
    ELSE IF f = "Alíquota ICMS" THEN "pICMS" ELSE "vICMS"

\* names of taxation-regime wrappers, one of them no name of the layout
WrapperTags == {"ICMS00", "ICMS20", "ICMS90", "ICMSSN102", "Outro"}

\* the tree with every child of an ICMS node renamed to the wrapper w
RECURSIVE Rewrap(_, _)
Rewrap(e, w) ==
    [e EXCEPT !.children =
        [k \in 1..Len(e.children) |->
            IF e.tag = Q("ICMS")
            THEN [Rewrap(e.children[k], w) EXCEPT !.tag = Q(w)]
            ELSE Rewrap(e.children[k], w)]]

\* a wrapper ICMS90 holding every ICMS leaf with the text "9"
NineWrapper ==
    Node(Q("ICMS90"), <<Leaf(Q("orig"), <<"9">>), Leaf(Q("CST"), <<"9">>),
                        Leaf(Q("modBC"), <<"9">>), Leaf(Q("vBC"), <<"9">>),
                        Leaf(Q("pICMS"), <<"9">>), Leaf(Q("vICMS"), <<"9">>)>>)

\* the tree with NineWrapper added to every ICMS node, as its first child
\* (first = TRUE) or as its last
RECURSIVE AddWrapper(_, _)
AddWrapper(e, first) ==
    LET kids == [k \in 1..Len(e.children) |-> AddWrapper(e.children[k], first)]
    IN  [e EXCEPT !.children =
            IF e.tag # Q("ICMS") THEN kids
            ELSE IF first THEN <<NineWrapper>> \o kids ELSE kids \o <<NineWrapper>>]

\* the item has the leaf of ICMS field f beneath its ICMS node
HasIcmsLeaf(item, f) ==
    Find(item, <<D(Q("imposto")), C(Q("ICMS")), D(Q(IcmsTag(f)))>>) # <<>>

HasIcmsNode(item) == Find(item, <<D(Q("imposto")), C(Q("ICMS"))>>) # <<>>

\* C22: the value of an ICMS field does not depend on the name of the wrapper
\* that holds its leaf, and of several leaves of that name beneath the item's
\* ICMS node the first in document order gives the value.
C22_RegimeAgnostic ==
    (Returned /\ CurBuf.wf /\ CurDets # <<>>) =>
        \A k \in 1..Len(records) : \A f \in IcmsFields \cap DOMAIN records[k] :
            /\ \A w \in WrapperTags :
                ItemValue(Rewrap(CurDets[k], w), f) = records[k][f]
            /\ HasIcmsLeaf(CurDets[k], f) =>
                ItemValue(AddWrapper(CurDets[k], FALSE), f) = records[k][f]
            /\ HasIcmsNode(CurDets[k]) =>
                ItemValue(AddWrapper(CurDets[k], TRUE), f)
                    = ItemValue(Elem(Q("det"), <<>>, <<>>,
                                     <<Node(Q("imposto"),
                                            <<Node(Q("ICMS"), <<NineWrapper>>)>>)>>), f)

C22_Witness ==
    /\ Returned /\ CurBuf.wf /\ Len(records) = 2
    /\ {"Valor ICMS", "CST ICMS"} \subseteq DOMAIN records[1]
    /\ records[1]["Valor ICMS"] = PyFloat(189)
    /\ Find(CurDets[1], <<D(Q("ICMS00"))>>) # <<>>
    /\ ItemValue(Rewrap(CurDets[1], "ICMS90"), "Valor ICMS") = PyFloat(189)
    /\ ItemValue(AddWrapper(CurDets[1], TRUE), "Valor ICMS") = PyFloat(900)
    /\ ItemValue(AddWrapper(CurDets[1], FALSE), "Valor ICMS") = PyFloat(189)

\* C23: an iteration of the item loop leaves the Document Record and the
\* records appended so far as they are, and the record it appends holds every
\* header field with the Document Record's value; header and item keys are
\* disjoint.
C23_CloneIsolation ==
    [][(pc = "items" /\ ii <= Len(items)) =>
            /\ header_data' = header_data
            /\ Len(results') = Len(results) + 1
            /\ \A j \in 1..Len(results) : results'[j] = results[j]
            /\ \A f \in DOMAIN header_data :
                /\ f \in DOMAIN results'[Len(results')]
                /\ results'[Len(results')][f] = header_data[f]
            /\ (DOMAIN header_data) \cap ItemKeys(selected_fields) = {}]_vars

C23_Witness ==
    /\ pc = "items" /\ ii = 3
    /\ Len(results) = 2
    /\ results[1] # results[2]
    /\ DOMAIN header_data # {}
    /\ ItemKeys(selected_fields) # {}
    /\ \E f \in DOMAIN header_data : Truthy(header_data[f])
    /\ \A f \in DOMAIN header_data :
        results[1][f] = header_data[f] /\ results[2][f] = header_data[f]

\* a document that holds nothing but the det node d
Isolated(d) ==
    WellFormed(Node(Q("nfeProc"), <<Node(Q("NFe"), <<Node(Q("infNFe"), <<d>>)>>)>>))

\* C24: the ITEM values of the k-th record are those the k-th det node gives
\* when it is the only content of a document, and 'Número do Item' is the det
\* node's nItem attribute, None when the attribute is missing or empty.
C24_ItemScoping ==
    (Returned /\ CurBuf.wf /\ CurDets # <<>>) =>
        /\ Len(records) = Len(CurDets)
        /\ \A k \in 1..Len(records) :
            LET alone == parse_nfe_xml(Isolated(CurDets[k]), selected_fields)
                nitem == GetAttr(CurDets[k], "nItem")
            IN  /\ ItemKeys(selected_fields) # {} => Len(alone) = 1
                /\ \A f \in ItemKeys(selected_fields) :
                    /\ f \in DOMAIN records[k]
                    /\ records[k][f] = alone[1][f]
                    /\ f = "Número do Item" =>
                        records[k][f] = IF nitem = PyNone \/ nitem.s = <<>>
                                        THEN PyNone ELSE nitem

C24_Witness ==
    /\ Returned /\ CurBuf.wf /\ Len(records) = 2
    /\ {"Número do Item", "Valor Total Item"} \subseteq DOMAIN records[1]
    /\ Find(CurBuf.root, <<D(Q("ICMSTot")), C(Q("vProd"))>>) # <<>>
    /\ Find(CurDets[2], <<D(Q("vProd"))>>) = <<>>
    /\ records[1]["Valor Total Item"] = PyFloat(1050)
    /\ records[2]["Valor Total Item"] = PyFloat(0)
    /\ records[1]["Número do Item"] = PyStr(<<"1">>)
    /\ records[2]["Número do Item"] = PyStr(<<"2">>)

\* C24, a det node without the nItem attribute
C24_WitnessNoAttribute ==
    /\ Returned /\ CurBuf.wf /\ Len(records) = 2
    /\ "Número do Item" \in DOMAIN records[2]
    /\ GetAttr(CurDets[2], "nItem") = PyNone
    /\ records[1]["Número do Item"] = PyStr(<<"2">>)
    /\ records[2]["Número do Item"] = PyNone

----------------------------------------------------------------------------
(* C25: per-field containment *)

\* the value a record holds for field f of the document root and the det
\* node item (<<>> for a Document Record) when nothing raises
Unfaulted(root, item, f) ==
    IF f \in ItemFieldSet /\ item # <<>>
    THEN IF f = "Número do Item"
         THEN (IF Truthy(GetAttr(item, "nItem")) THEN GetAttr(item, "nItem") ELSE PyNone)
         ELSE ItemFieldBody(item, f)
    ELSE HeaderValue(root, f, detect_nfe_version(root))

\* the value the except branches store for field f
ExceptDefault(f) ==
    IF f \in ItemFieldSet /\ f \in ItemExceptNumeric THEN PyFloat(0) ELSE PyNone

\* C25: when parse_nfe_xml returns from a well-formed document in a run where
\* the evaluation of the fields in raising fails, it returns as many records
\* as without the failures (one per det node, or the Document Record), every
\* record has every selected field as a key, a failing field holds its
\* default (absent, or 0.0 for the 18 numeric item fields) and every other
\* field holds the value its evaluation gives
C25_PerFieldContainment ==
    (pc = "extend" /\ xml_contents[xi].wf) =>
        LET root == xml_contents[xi].root
            dets == FindItems(root)
            hk == HeaderKeys(selected_fields)
            ik == ItemKeys(selected_fields)
        IN  /\ Len(records) = (IF dets # <<>> THEN Len(dets)
                               ELSE IF hk # {} THEN 1 ELSE 0)
            /\ \A k \in 1..Len(records) :
                 LET item == IF dets # <<>> THEN dets[k] ELSE <<>>
                 IN  /\ DOMAIN records[k] = hk \cup (IF dets # <<>> THEN ik ELSE {})
                     /\ \A f \in DOMAIN records[k] :
                          records[k][f] =
                              IF f \in raising /\ f # "Número do Item"
                              THEN ExceptDefault(f)
                              ELSE Unfaulted(root, item, f)

\* a document with two det nodes was parsed with a failing numeric item field
\* whose evaluation would have given another value than the default 0.0, next
\* to a selected field that did not fail and holds a value
C25_Witness ==
    /\ pc = "extend"
    /\ xml_contents[xi].wf
    /\ Len(records) = 2
    /\ \E f \in raising \cap ItemKeys(selected_fields) \cap ItemExceptNumeric :
         /\ records[1][f] = PyFloat(0)
         /\ ItemFieldBody(FindItems(xml_contents[xi].root)[1], f) # PyFloat(0)
    /\ \E g \in DOMAIN records[1] \ raising : records[1][g] # PyNone /\ g # "Número do Item"

\* a failing header field is stored as absent although the document has it,
\* and a failing text item field is stored as absent
C25_WitnessAbsent ==
    /\ pc = "extend"
    /\ xml_contents[xi].wf
    /\ records # <<>>
    /\ \E f \in raising \cap DOMAIN records[1] :
         /\ records[1][f] = PyNone
         /\ Unfaulted(xml_contents[xi].root,
                      IF FindItems(xml_contents[xi].root) # <<>>
                      THEN FindItems(xml_contents[xi].root)[1] ELSE <<>>, f) # PyNone

----------------------------------------------------------------------------
(* C26: repeatability *)

\* C26: when a call of process_nfe_files has returned, every blob is at
\* position 0 again, and the table a second call on the same blob objects and
\* the same selection returns is the table the first call returned
C26_Repeatable ==
    pc = "done" =>
        /\ \A k \in 1..Len(uploaded_files) : position[k] = 0
        /\ call = 2 => df = first_df

\* the second call on two blobs has returned a table with rows
C26_Witness ==
    /\ pc = "done"
    /\ call = 2
    /\ Len(uploaded_files) = 2
    /\ df.rows # <<>>
    /\ df = first_df

----------------------------------------------------------------------------
(* C27: the invoiced total of the dashboard *)

\* the header total of one source document, as a number (0 without one)
DocTotal(doc) ==
    LET val == ToNumeric(HeaderValue(doc.root, "Valor Total da NF",
                                     detect_nfe_version(doc.root)))
    IN  IF val.t = "float" THEN val.v ELSE 0

RECURSIVE SumOver(_)
SumOver(S) ==
    IF S = {} THEN 0
    ELSE LET doc == CHOOSE x \in S : TRUE IN DocTotal(doc) + SumOver(S \ {doc})

DistinctDocs == {source_docs[k] : k \in 1..Len(source_docs)}

\* C27: for a table with a 'Valor Total da NF' column, total_faturado is the
\* sum of the header totals of the distinct source documents, each counted once
C27_TotalOncePerDocument ==
    (pc = "shown" /\ HasColumn(df_dashboard, "Valor Total da NF")) =>
        kpis.total_faturado = SumOver(DistinctDocs)

\* the access key column is there and every source document has its own key:
\* each document's total is counted once, whatever its number of rows
C27_DistinctKeys ==
    (/\ pc = "shown"
     /\ HasColumn(df_dashboard, "Valor Total da NF")
     /\ HasColumn(df_dashboard, "Chave de Acesso")
     /\ \A doc \in DistinctDocs :
          Find(doc.root, <<D(Q("infNFe"))>>) # <<>>
          /\ HeaderValue(doc.root, "Chave de Acesso", PyNone) # PyNone) =>
        kpis.total_faturado = SumOver(DistinctDocs)

\* two documents without an access key, two rows and two more: their keys
\* are the same missing value and one total is dropped
C27_AbsentKeysCollapse ==
    /\ pc = "shown"
    /\ HasColumn(df_dashboard, "Chave de Acesso")
    /\ HasColumn(df_dashboard, "Valor Total da NF")
    /\ Len(source_docs) = 2
    /\ \A k \in 1..2 : HeaderValue(source_docs[k].root, "Chave de Acesso", PyNone) = PyNone
    /\ source_docs[1] # source_docs[2]
    /\ kpis.total_faturado = DocTotal(source_docs[1])
    /\ DocTotal(source_docs[2]) > 0

\* only the invoice number identifies the rows and two issuers' documents
\* bear the same number: one total is dropped
C27_SharedNumberCollapse ==
    /\ pc = "shown"
    /\ ~HasColumn(df_dashboard, "Chave de Acesso")
    /\ HasColumn(df_dashboard, "Número da NF")
    /\ HasColumn(df_dashboard, "Valor Total da NF")
    /\ Len(source_docs) = 2
    /\ source_docs[1] # source_docs[2]
    /\ HeaderValue(source_docs[1].root, "Número da NF", PyNone)
         = HeaderValue(source_docs[2].root, "Número da NF", PyNone)
    /\ kpis.total_faturado = DocTotal(source_docs[1])
    /\ DocTotal(source_docs[2]) > 0

----------------------------------------------------------------------------
(* C28: the ICMS text fields *)

\* the text of the first element the ICMS locator of field f matches under
\* the det node item, before any stripping or conversion
IcmsRaw(item, f) ==
    RawText(item, <<D(Q("imposto")), C(Q("ICMS")), D(Q(IcmsTextTag(f)))>>)

\* C28: in every record of the item loop, 'Origem da Mercadoria', 'CST ICMS'
\* and 'Modalidade BC ICMS' hold the stripped text of the matched element as
\* text, character for character (absent without such an element)
C28_IcmsTextKeptAsText ==
    Len(results) <= Len(items) =>
        \A k \in 1..Len(results) :
            \A f \in IcmsTextFields \cap DOMAIN results[k] :
                results[k][f] = IF IcmsRaw(items[k], f) = PyNone THEN PyNone
                                ELSE PyStr(Strip(IcmsRaw(items[k], f).s))

\* the element CST holds the text 00 and the record holds the number 0.0
C28_CstBecomesNumber ==
    /\ pc = "items"
    /\ Len(results) >= 1
    /\ "CST ICMS" \in DOMAIN results[1]
    /\ IcmsRaw(items[1], "CST ICMS") = PyStr(<<"0", "0">>)
    /\ results[1]["CST ICMS"] = PyFloat(0)

----------------------------------------------------------------------------
(* C29: when parse_nfe_xml returns nothing *)

\* C29: for a well-formed document parse_nfe_xml returns an empty sequence
\* exactly when the document has no det node and no catalog header field is
\* selected; with a catalog header field selected it returns at least one
\* record, and every record has every such field as a key
C29_EmptyOnlyWithoutHeaderAndItems ==
    (pc = "extend" /\ CurBuf.wf) =>
        /\ records = <<>> <=> (CurDets = <<>> /\ HeaderKeys(selected_fields) = {})
        /\ HeaderKeys(selected_fields) # {} =>
             /\ Len(records) >= 1
             /\ \A k \in 1..Len(records) : HeaderKeys(selected_fields) \subseteq DOMAIN records[k]

\* a well-formed document without any NF-e content, parsed with header fields
\* selected, gave one record whose values are all absent
C29_Witness ==
    /\ pc = "extend"
    /\ CurBuf = NonNFe
    /\ HeaderKeys(selected_fields) # {}
    /\ Len(records) = 1
    /\ \A f \in DOMAIN records[1] : records[1][f] = PyNone

\* an NF-e document without det nodes, parsed with item fields alone
\* selected, gave no record
C29_WitnessEmpty ==
    /\ pc = "extend"
    /\ CurBuf.wf
    /\ CurBuf # NonNFe
    /\ CurDets = <<>>
    /\ ItemKeys(selected_fields) # {}
    /\ HeaderKeys(selected_fields) = {}
    /\ records = <<>>

----------------------------------------------------------------------------
(* C30: the table kept in the session *)

\* the runs so far that returned a table that is not empty
StoringRuns == {k \in 1..Len(run_log) :
                  run_log[k].returned /\ ~FrameEmpty(run_log[k].df_result)}

\* the result of the most recent such run, the empty table when there is none
LastStored ==
    IF StoringRuns = {} THEN EmptyFrame
    ELSE run_log[CHOOSE k \in StoringRuns : \A j \in StoringRuns : j <= k].df_result

C30_FailedRunKeepsTable ==
    [][(Len(run_log') = Len(run_log) + 1
        /\ run_log'[Len(run_log')].message \in {"warning", "error"})
       => df_processado' = df_processado]_vars

C30_WitnessReplaced ==
    /\ Len(run_log) = 2
    /\ run_log[1].message = "success"
    /\ run_log[2].message = "success"
    /\ run_log[1].df_result # run_log[2].df_result
    /\ df_processado = run_log[2].df_result

\* a returned table with rows but no column counts as empty
C30_WitnessNoColumns ==
    /\ Len(run_log) = 1
    /\ run_log[1].returned
    /\ run_log[1].df_result.rows # <<>>
    /\ run_log[1].message = "warning"

====
